---- MODULE Spec2Model ----
(***************************************************************************)
(* mailbridge: the provider adapters (SMTP, SendGrid, Mailgun, SES,        *)
(* Postmark, Brevo), their send and send_bulk, and the MailBridge facade.  *)
(* Every adapter operation is a blocking call: an action below is one      *)
(* whole call of send or send_bulk, computed from the message(s) and from  *)
(* the outcomes the transport gives to the calls issued, in order.         *)
(***************************************************************************)
EXTENDS Integers, Sequences, FiniteSets, TLC

(* ---------------------------- bounds ---------------------------------- *)
\* longest explicitly enumerated batch
MaxBatch == 3
\* number of leading transport calls of one operation whose outcome is scripted
MaxEnv == 3
\* largest single-template SES batch
MaxLarge == 101
\* the longest list handed to a BulkEmailDTO constructed directly
MaxCtor == 2
\* the longest batch whose messages name their own senders
MaxSenders == 2
\* the most operations in the body of one scoped-use block
MaxBody == 3

(* ---------------------------- values ---------------------------------- *)
\* Python's None, for string-valued fields
None == "None"
\* Python's None, for list-valued fields (cc, bcc)
NoList == <<None>>
\* an absent number (a metadata key that is not set)
NoCount == 0 - 1
\* the from_email of the adapter configuration
ConfigFromEmail == "sender@example.com"

Providers == {"smtp", "sendgrid", "mailgun", "ses", "postmark", "brevo"}

TemplateIds == {"t1", "t2"}

\* EmailMessageDto: the recipient stands for the list to = [to]
Message(to, subject, body, tid, data) ==
    [to |-> to, subject |-> subject, body |-> body, from_email |-> None,
     cc |-> NoList, bcc |-> NoList,
     template_id |-> tid, template_data |-> data, attachments |-> FALSE,
     tags |-> None]

\* EmailMessageDto.__post_init__: the two checks; "" and None are both falsy
Truthy(s) == s # None /\ s # ""

\* the mutant of __post_init__: the checks test `is not None`
ValidMessageNotNone(m) ==
    /\ (m.template_id # None \/ m.subject # None)
    /\ (m.template_id # None \/ m.body # None)

ValidMessage(m) ==
    /\ (Truthy(m.template_id) \/ Truthy(m.subject))
    /\ (Truthy(m.template_id) \/ Truthy(m.body))

IsTemplateEmail(m) == m.template_id # None

\* message.from_email or self.config.get('from_email')
SenderOf(m) == IF Truthy(m.from_email) THEN m.from_email ELSE ConfigFromEmail

\* `x or []` for a list field: None and the empty list give []
OrEmpty(xs) == IF xs = NoList THEN <<>> ELSE xs

\* message.to + (message.cc or []) + (message.bcc or [])
Recipients(m) == <<m.to>> \o OrEmpty(m.cc) \o OrEmpty(m.bcc)

(* ---------------------------- results --------------------------------- *)
\* EmailResponseDTO; metadata is flattened into status_code, bulk_count, meta_template
EmailResponseDTO(success, message_id, provider, error, status_code, bulk_count, tid) ==
    [success |-> success, message_id |-> message_id, provider |-> provider,
     error |-> error, status_code |-> status_code, bulk_count |-> bulk_count,
     meta_template |-> tid, success_count |-> NoCount]

NoResult == EmailResponseDTO(FALSE, None, None, None, NoCount, NoCount, None)

\* an exception: its class, EmailSendError.provider, and its text
Exc(type, provider, msg) == [type |-> type, provider |-> provider, msg |-> msg]
NoExc == Exc(None, None, None)
EmailSendError(msg, provider) == Exc("EmailSendError", provider, msg)

\* the outcome of one send: a returned EmailResponseDTO or a raised exception
Returned(res) == [kind |-> "return", res |-> res, exc |-> NoExc]
Raised(e) == [kind |-> "raise", res |-> NoResult, exc |-> e]

\* `sum(1 for r in responses if r.success)`
CountSuccess(rs) == Cardinality({i \in 1..Len(rs) : rs[i].success})

\* the mutant of from_responses: failed counts every response
FromResponsesMiscount(responses) ==
    [total |-> Len(responses), successful |-> CountSuccess(responses),
     failed |-> Len(responses), responses |-> responses]

\* BulkEmailResponseDTO.from_responses
FromResponses(responses) ==
    [total |-> Len(responses),
     successful |-> CountSuccess(responses),
     failed |-> Len(responses) - CountSuccess(responses),
     responses |-> responses]

NoBulk == [total |-> NoCount, successful |-> NoCount, failed |-> NoCount,
           responses |-> <<>>]

\* the outcome of one send_bulk
BulkReturned(b) == [kind |-> "return", bulk |-> b, exc |-> NoExc]
BulkRaised(e) == [kind |-> "raise", bulk |-> NoBulk, exc |-> e]

(* ---------------------------- transport ------------------------------- *)
\* one call handed to the transport: the API used, the template and sender of
\* the payload, and one entry per destination / personalization / version
\* rcpt is the envelope recipient list of the calls that take one (to_addrs
\* of smtplib's send_message, Destinations of SES's send_raw_email)
CallTo(provider, api, tid, source, entries, rcpt) ==
    [provider |-> provider, api |-> api, template_id |-> tid,
     source |-> source, entries |-> entries, rcpt |-> rcpt]
Call(provider, api, tid, source, entries) ==
    CallTo(provider, api, tid, source, entries, <<>>)

\* the entry of a message in a payload that carries no template data: the
\* regular payloads, and every message SMTP sends
PlainEntryOf(m) == [to |-> m.to, data |-> None]

\* the entry a message contributes to a payload: its recipients, and its
\* template data on the template paths, which `message.is_template_email()`
\* selects; the regular paths put no template data into the payload
EntryOf(m) ==
    IF IsTemplateEmail(m) THEN [to |-> m.to, data |-> m.template_data]
    ELSE PlainEntryOf(m)

EntriesOf(ms) == [i \in 1..Len(ms) |-> EntryOf(ms[i])]

\* what requests.post gives back: a response (status, X-Message-Id header,
\* body) or a raised requests exception. json = "obj" is a JSON object with
\* the provider's fields (id; ids for Brevo's messageVersions call), "empty"
\* is the JSON object {}, "notjson" makes response.json() raise
\* requests.exceptions.JSONDecodeError, a RequestException since requests 2.27
HttpResponse(status, json, xid) ==
    [kind |-> "response", status |-> status, json |-> json, xid |-> xid,
     id |-> "m1", ids |-> <<"m1", "m2">>, exc |-> None]
\* a response to Brevo's messageVersions call whose body is
\* {"messageId": [id, ...]} with the given list of ids
BrevoBulkResponse(status, ids) ==
    [kind |-> "response", status |-> status, json |-> "obj", xid |-> None,
     id |-> None, ids |-> ids, exc |-> None]
HttpError(type) ==
    [kind |-> "raise", status |-> 0, json |-> "notjson", xid |-> None,
     id |-> None, ids |-> <<>>, exc |-> type]

\* the classes caught by `except requests.RequestException`
IsRequestException(type) ==
    type \in {"RequestException", "ConnectionError", "Timeout", "JSONDecodeError"}

\* `except requests.RequestException as e: raise EmailSendError(...)`:
\* anything else propagates unchanged
ExceptRequestException(e, msg, provider) ==
    IF IsRequestException(e.type) THEN EmailSendError(msg, provider) ELSE e

(* ---------------------------- Mailgun --------------------------------- *)
MailgunProvider_send(m, o) ==
    LET call == Call("mailgun", "messages", m.template_id, SenderOf(m), <<EntryOf(m)>>)
        failed == "Failed to send email via Mailgun"
        out ==
          IF o.kind = "raise"
            THEN Raised(ExceptRequestException(Exc(o.exc, None, "post"), failed, "mailgun"))
          ELSE IF o.status # 200
            THEN Raised(EmailSendError("Mailgun API error", "mailgun"))
          ELSE IF o.json = "notjson"
            THEN Raised(ExceptRequestException(Exc("JSONDecodeError", None, "json"), failed, "mailgun"))
          ELSE Returned(EmailResponseDTO(TRUE, IF o.json = "obj" THEN o.id ELSE None,
                                         "mailgun", None, NoCount, NoCount, None))
    IN [out |-> out, calls |-> <<call>>, leak |-> 0]

(* ---------------------------- Postmark -------------------------------- *)
PostmarkProvider_send(m, o) ==
    LET call == Call("postmark", "email", m.template_id, SenderOf(m), <<EntryOf(m)>>)
        failed == "Failed to send email via Postmark"
        out ==
          IF o.kind = "raise"
            THEN Raised(ExceptRequestException(Exc(o.exc, None, "post"), failed, "postmark"))
          ELSE IF o.json = "notjson"
            THEN Raised(ExceptRequestException(Exc("JSONDecodeError", None, "json"), failed, "postmark"))
          ELSE IF o.status # 200
            THEN Raised(EmailSendError("Postmark API error", "postmark"))
          ELSE Returned(EmailResponseDTO(TRUE, IF o.json = "obj" THEN o.id ELSE None,
                                         "postmark", None, NoCount, NoCount, None))
    IN [out |-> out, calls |-> <<call>>, leak |-> 0]

(* ---------------------------- Brevo ----------------------------------- *)
\* BrevoProvider._send_request: the response, or the exception it raises
BrevoProvider_send_request(o) ==
    IF o.kind = "raise" THEN Exc(o.exc, None, "post")
    ELSE IF o.status \notin {200, 201}
      THEN IF o.json = "notjson" THEN Exc("JSONDecodeError", None, "json")
           ELSE EmailSendError("Brevo API error", "brevo")
    ELSE NoExc

BrevoProvider_send(m, o) ==
    LET call == Call("brevo", "smtp/email", m.template_id, SenderOf(m), <<EntryOf(m)>>)
        failed == "Failed to send email via Brevo"
        e == BrevoProvider_send_request(o)
        out ==
          IF e # NoExc THEN Raised(ExceptRequestException(e, failed, "brevo"))
          ELSE IF o.json = "notjson"
            THEN Raised(ExceptRequestException(Exc("JSONDecodeError", None, "json"), failed, "brevo"))
          ELSE Returned(EmailResponseDTO(TRUE, IF o.json = "obj" THEN o.id ELSE None,
                                         "brevo", None, o.status, NoCount, None))
    IN [out |-> out, calls |-> <<call>>, leak |-> 0]

(* ---------------------------- SendGrid -------------------------------- *)
\* SendGridProvider._send_request: the exception it raises, or what it
\* returns. Its return statement is `return requests`: the caller gets the
\* requests module, not the response
SendGridProvider_send_request(o) ==
    IF o.kind = "raise" THEN [exc |-> Exc(o.exc, None, "post"), ret |-> None]
    ELSE IF o.status \notin {200, 202}
      THEN [exc |-> EmailSendError("SendGrid template error", "sendgrid"), ret |-> None]
    ELSE [exc |-> NoExc, ret |-> "requests"]

\* response.headers and response.status_code exist on a Response; the
\* requests module has neither attribute
HasResponseAttributes(ret) == ret = "response"

\* SendGridProvider.send and send_template: the same steps, the template
\* branch with its own payload and error text
SendGridProvider_send(m, o) ==
    LET call == Call("sendgrid", "mail/send", m.template_id, SenderOf(m), <<EntryOf(m)>>)
        failed == IF IsTemplateEmail(m)
                    THEN "Failed to send template email via SendGrid"
                    ELSE "Failed to send email via SendGrid"
        r == SendGridProvider_send_request(o)
        out ==
          IF r.exc # NoExc THEN Raised(ExceptRequestException(r.exc, failed, "sendgrid"))
          ELSE IF ~HasResponseAttributes(r.ret)
            THEN Raised(Exc("AttributeError", None, "module 'requests' has no attribute 'headers'"))
          ELSE Returned(EmailResponseDTO(TRUE, o.xid, "sendgrid", None, o.status, NoCount,
                                         m.template_id))
    IN [out |-> out, calls |-> <<call>>, leak |-> 0]

\* SendGridProvider._send_bulk_template: one call for a whole template group
SendGridProvider_send_bulk_template(tid, ms, o) ==
    LET call == Call("sendgrid", "mail/send", tid, SenderOf(ms[1]), EntriesOf(ms))
        r == SendGridProvider_send_request(o)
        out ==
          IF r.exc # NoExc THEN Raised(r.exc)
          ELSE IF ~HasResponseAttributes(r.ret)
            THEN Raised(Exc("AttributeError", None, "module 'requests' has no attribute 'status_code'"))
          ELSE IF o.status \notin {200, 202}
            THEN Raised(EmailSendError("SendGrid bulk template error", "sendgrid"))
          ELSE Returned(EmailResponseDTO(TRUE, o.xid, "sendgrid", None, NoCount, Len(ms), tid))
    IN [out |-> out, calls |-> <<call>>, leak |-> 0]

(* ---------------------------- SES ------------------------------------- *)
\* the chunk size of SESProvider.send_bulk
SES_BULK_LIMIT == 50

\* a boto3 client call: "ok" returns a well-formed response, "malformed"
\* returns a response without MessageId and ResponseMetadata, the others
\* raise
SesOutcomes == {"ok", "ClientError", "BotoCoreError", "malformed"}

\* what send_bulk_templated_email reports per destination: "partial" is a
\* response whose first destination is rejected, "rejected" one whose every
\* destination is, "nostatus" one without the Status key; to the other
\* operations these are well-formed responses
SesStatusOutcomes == {"partial", "rejected", "nostatus"}

\* response.get('Status', []), for a call with n destinations
StatusList(o, n) ==
    CASE o = "nostatus" -> <<>>
      [] o = "rejected" -> [i \in 1..n |-> "MessageRejected"]
      [] o = "partial" -> [i \in 1..n |-> IF i = 1 THEN "MessageRejected" ELSE "Success"]
      [] o = "malformed" -> <<>>
      [] OTHER -> [i \in 1..n |-> "Success"]

\* sum(1 for status in response.get('Status', []) if status.get('Status') == 'Success')
SuccessCount(statuses) == Cardinality({i \in 1..Len(statuses) : statuses[i] = "Success"})

\* the exception the client call raises, if any
SesCallException(o) ==
    IF o \in {"ClientError", "BotoCoreError"} THEN Exc(o, None, "boto3") ELSE NoExc

\* response[key], read after the call returned: a KeyError on the response
\* that lacks the key
SesReadException(o, key) ==
    IF o = "malformed" THEN Exc("KeyError", None, key) ELSE NoExc

\* SESProvider.send: the template test first, then attachments
SESProvider_send(m, o) ==
    LET api == IF IsTemplateEmail(m) THEN "send_templated_email"
               ELSE IF m.attachments THEN "send_raw_email"
               ELSE "send_email"
        call == CallTo("ses", api, m.template_id, SenderOf(m), <<EntryOf(m)>>,
                       IF api = "send_raw_email" THEN Recipients(m) ELSE <<>>)
        e == SesCallException(o)
        missing == SesReadException(o, "MessageId")
        out ==
          IF e.type = "ClientError" THEN Raised(EmailSendError("SES error", "ses"))
          ELSE IF e # NoExc \/ missing # NoExc
            THEN Raised(EmailSendError("Failed to send email via SES", "ses"))
          ELSE Returned(EmailResponseDTO(TRUE, "ses-message-id", "ses", None, NoCount, NoCount,
                                         m.template_id))
    IN [out |-> out, calls |-> <<call>>, leak |-> 0]

\* the mutant of _send_bulk_templated: a chunk with a rejected destination
\* is a failed result
SESProvider_send_bulk_templated_strict(tid, ms, o) ==
    LET call == Call("ses", "send_bulk_templated_email", tid, SenderOf(ms[1]), EntriesOf(ms))
        e == SesCallException(o)
        missing == SesReadException(o, "ResponseMetadata")
        n == SuccessCount(StatusList(o, Len(ms)))
        out ==
          IF e # NoExc THEN Raised(e)
          ELSE IF missing # NoExc THEN Raised(missing)
          ELSE Returned([EmailResponseDTO(n = Len(ms), "request-id", "ses", None, NoCount,
                                          Len(ms), tid)
                           EXCEPT !.success_count = n])
    IN [out |-> out, calls |-> <<call>>, leak |-> 0]

\* SESProvider._send_bulk_templated: one call for one chunk. When the call
\* has returned, the statuses are counted and response['ResponseMetadata']
\* is read for the result
SESProvider_send_bulk_templated(tid, ms, o) ==
    LET call == Call("ses", "send_bulk_templated_email", tid, SenderOf(ms[1]), EntriesOf(ms))
        e == SesCallException(o)
        missing == SesReadException(o, "ResponseMetadata")
        out ==
          IF e # NoExc THEN Raised(e)
          ELSE IF missing # NoExc THEN Raised(missing)
          ELSE Returned([EmailResponseDTO(TRUE, "request-id", "ses", None, NoCount,
                                          Len(ms), tid)
                           EXCEPT !.success_count = SuccessCount(StatusList(o, Len(ms)))])
    IN [out |-> out, calls |-> <<call>>, leak |-> 0]

(* ---------------------------- SMTP ------------------------------------ *)
\* what the SMTP session does to the send: the smtplib primitive that fails,
\* and how ("none": nothing fails).
\*   "connect"   the connection is refused (for SMTP_SSL also: its TLS
\*               handshake fails): the constructor raises, no socket is left
\*   "greeting"  the server greets with a code other than 220: smtplib
\*               closes the socket and raises SMTPConnectError
\*   "starttls", "login", "send_message"
\*               the server answers the command with an error reply (454,
\*               535, 550): smtplib raises and leaves the socket as it is
\*   "starttls_disconnected", "login_disconnected", "send_message_disconnected"
\*               the connection drops or the socket fails during the command
\*               (or MAIL, RCPT, DATA is answered with 421): smtplib closes
\*               the socket, then raises
\*   "starttls_handshake"
\*               STARTTLS is answered with 220 and the TLS handshake fails:
\*               ssl closes the socket and raises; smtplib's close is not
\*               called
\*   "quit"      QUIT is answered with a reply other than 221:
\*               SMTP.__exit__ raises SMTPResponseException
\*   "quit_disconnected"
\*               the connection drops or the socket fails while QUIT is
\*               written or its reply is read: smtplib closes the socket and
\*               raises SMTPServerDisconnected, which SMTP.__exit__ swallows
\*               before it closes again
\*   "quit_closed"
\*               the reply to QUIT is longer than smtplib reads: smtplib
\*               closes the socket and raises SMTPResponseException, which
\*               SMTP.__exit__ lets through after it closes again
\*   "send_message+quit", "send_message+quit_disconnected", "send_message+quit_closed"
\*               the server refuses the message by an error reply, and then
\*               QUIT ends as above
SmtpFails ==
    {"none", "connect", "greeting", "starttls", "starttls_disconnected",
     "starttls_handshake", "login", "login_disconnected", "send_message",
     "send_message_disconnected", "quit", "quit_disconnected", "quit_closed",
     "send_message+quit", "send_message+quit_disconnected", "send_message+quit_closed"}

\* the connection modes of the configuration: use_tls (default true), use_ssl
SmtpConfigs == [use_tls : BOOLEAN, use_ssl : BOOLEAN]
DefaultConfig == [use_tls |-> TRUE, use_ssl |-> FALSE]

SmtpCall(api) == Call("smtp", api, None, None, <<>>)

\* the mutant of _get_smtp_connection: use_tls upgrades an SSL connection too
GetSmtpConnectionTlsOnSsl(cfg, fail) ==
    LET connect == IF cfg.use_ssl THEN "SMTP_SSL" ELSE "SMTP"
        tls == IF cfg.use_tls THEN <<SmtpCall("starttls")>> ELSE <<>>
        opened == <<SmtpCall(connect)>>
        closed == <<SmtpCall("close")>>
    IN IF fail = "connect"
         THEN [ok |-> FALSE, calls |-> opened, open |-> 0]
       ELSE IF fail = "greeting"
         THEN [ok |-> FALSE, calls |-> opened \o closed, open |-> 0]
       ELSE IF fail = "starttls" /\ tls # <<>>
         THEN [ok |-> FALSE, calls |-> opened \o tls, open |-> 1]
       ELSE IF fail = "starttls_disconnected" /\ tls # <<>>
         THEN [ok |-> FALSE, calls |-> opened \o tls \o closed, open |-> 0]
       ELSE IF fail = "starttls_handshake" /\ tls # <<>>
         THEN [ok |-> FALSE, calls |-> opened \o tls, open |-> 0]
       ELSE IF fail = "login"
         THEN [ok |-> FALSE, calls |-> opened \o tls \o <<SmtpCall("login")>>, open |-> 1]
       ELSE IF fail = "login_disconnected"
         THEN [ok |-> FALSE, calls |-> opened \o tls \o <<SmtpCall("login")>> \o closed,
               open |-> 0]
       ELSE [ok |-> TRUE, calls |-> opened \o tls \o <<SmtpCall("login")>>, open |-> 1]

\* SMTPProvider._get_smtp_connection: the primitives called, whether it
\* returned the server, and the connections it leaves open. A command that
\* is refused by its reply raises with the socket still open and nobody left
\* to close it; a connection that drops is closed by smtplib itself, one
\* whose TLS handshake fails by ssl
GetSmtpConnection(cfg, fail) ==
    LET connect == IF cfg.use_ssl THEN "SMTP_SSL" ELSE "SMTP"
        tls == IF ~cfg.use_ssl /\ cfg.use_tls THEN <<SmtpCall("starttls")>> ELSE <<>>
        opened == <<SmtpCall(connect)>>
        closed == <<SmtpCall("close")>>
    IN IF fail = "connect"
         THEN [ok |-> FALSE, calls |-> opened, open |-> 0]
       ELSE IF fail = "greeting"
         THEN [ok |-> FALSE, calls |-> opened \o closed, open |-> 0]
       ELSE IF fail = "starttls" /\ tls # <<>>
         THEN [ok |-> FALSE, calls |-> opened \o tls, open |-> 1]
       ELSE IF fail = "starttls_disconnected" /\ tls # <<>>
         THEN [ok |-> FALSE, calls |-> opened \o tls \o closed, open |-> 0]
       ELSE IF fail = "starttls_handshake" /\ tls # <<>>
         THEN [ok |-> FALSE, calls |-> opened \o tls, open |-> 0]
       ELSE IF fail = "login"
         THEN [ok |-> FALSE, calls |-> opened \o tls \o <<SmtpCall("login")>>, open |-> 1]
       ELSE IF fail = "login_disconnected"
         THEN [ok |-> FALSE, calls |-> opened \o tls \o <<SmtpCall("login")>> \o closed,
               open |-> 0]
       ELSE [ok |-> TRUE, calls |-> opened \o tls \o <<SmtpCall("login")>>, open |-> 1]

\* SMTPProvider.send: MIMEText(message.body, ...) raises on a body of None,
\* before any connection; `with self._get_smtp_connection() as server` closes
\* the server (QUIT, then close) when the block is left, also by an
\* exception; every exception becomes an EmailSendError. When smtplib closed
\* the socket during send_message, SMTP.__exit__ still calls QUIT, which
\* raises SMTPServerDisconnected at once. A QUIT that ends in
\* SMTPServerDisconnected raises nothing out of the block: send returns when
\* the message was accepted, and raises the refusal when it was not
SMTPProvider_send(cfg, m, fail) ==
    LET conn == GetSmtpConnection(cfg, fail)
        error == EmailSendError("Failed to send email via SMTP", "smtp")
        dispatch == CallTo("smtp", "send_message", None, SenderOf(m), <<PlainEntryOf(m)>>,
                           Recipients(m))
        closed == <<SmtpCall("close")>>
        refused == fail \in {"send_message", "send_message+quit",
                             "send_message+quit_disconnected", "send_message+quit_closed"}
        dropped == fail = "send_message_disconnected"
        quit == IF fail \in {"quit", "send_message+quit"} THEN "reply"
                ELSE IF fail \in {"quit_disconnected", "send_message+quit_disconnected"}
                  THEN "disconnected"
                ELSE IF fail \in {"quit_closed", "send_message+quit_closed"} THEN "closed"
                ELSE "ok"
        exit == IF dropped THEN closed \o <<SmtpCall("quit")>> \o closed
                ELSE IF quit \in {"disconnected", "closed"}
                  THEN <<SmtpCall("quit")>> \o closed \o closed
                ELSE <<SmtpCall("quit")>> \o closed
        sent == EmailResponseDTO(TRUE, None, "smtp", None, NoCount, NoCount, None)
    IN IF m.body = None
         THEN [out |-> Raised(error), calls |-> <<>>, leak |-> 0]
       ELSE IF ~conn.ok
         THEN [out |-> Raised(error), calls |-> conn.calls, leak |-> conn.open]
       ELSE IF refused \/ dropped \/ quit \in {"reply", "closed"}
         THEN [out |-> Raised(error), calls |-> conn.calls \o <<dispatch>> \o exit, leak |-> 0]
       ELSE [out |-> Returned(sent), calls |-> conn.calls \o <<dispatch>> \o exit, leak |-> 0]

(* ---------------------------- a registered subclass ------------------- *)
\* an adapter registered with register_provider: a subclass of
\* BaseEmailProvider that implements send and inherits send_bulk. What its
\* send does is up to the subclass: it returns a result, raises
\* EmailSendError, or raises any other exception
CustomOutcomes == {"return", "EmailSendError", "RuntimeError"}

CustomProvider_send(m, o) ==
    [out |-> IF o = "return"
               THEN Returned(EmailResponseDTO(TRUE, None, "custom", None, NoCount, NoCount, None))
             ELSE IF o = "EmailSendError"
               THEN Raised(EmailSendError("custom send failed", "custom"))
             ELSE Raised(Exc(o, None, "boom")),
     calls |-> <<Call("custom", "send", m.template_id, SenderOf(m), <<EntryOf(m)>>)>>,
     leak |-> 0]

(* ---------------------------- dispatch -------------------------------- *)
\* the names in MailBridge.PROVIDERS once the subclass is registered
Registered == Providers \cup {"custom"}

\* provider.send(message) of the adapter registered under the name p
ProviderSend(p, cfg, m, o) ==
    CASE p = "smtp" -> SMTPProvider_send(cfg, m, o)
      [] p = "sendgrid" -> SendGridProvider_send(m, o)
      [] p = "mailgun" -> MailgunProvider_send(m, o)
      [] p = "ses" -> SESProvider_send(m, o)
      [] p = "postmark" -> PostmarkProvider_send(m, o)
      [] p = "brevo" -> BrevoProvider_send(m, o)
      [] p = "custom" -> CustomProvider_send(m, o)

\* self.__class__.__name__
ClassName(p) ==
    CASE p = "smtp" -> "SMTPProvider"
      [] p = "sendgrid" -> "SendGridProvider"
      [] p = "mailgun" -> "MailgunProvider"
      [] p = "ses" -> "SESProvider"
      [] p = "postmark" -> "PostmarkProvider"
      [] p = "brevo" -> "BrevoProvider"
      [] p = "custom" -> "CustomProvider"

\* the outcome of a step that the script does not cover: accepted
Accepted(p) ==
    CASE p = "smtp" -> "none"
      [] p = "ses" -> "ok"
      [] p = "custom" -> "return"
      [] OTHER -> HttpResponse(200, "obj", "x1")

\* the outcome the transport gives to the k-th step of an operation (a send
\* or a native bulk call; each issues at most one transport request)
OutcomeAt(p, env, k) == IF k <= Len(env) THEN env[k] ELSE Accepted(p)

(* ---------------------------- send_bulk ------------------------------- *)
\* the state of a send_bulk loop: the exception that ended it (NoExc while it
\* runs), the responses and transport calls so far, the connections left
\* open, and the index of the next transport call
Acc(exc, responses, calls, leak, next) ==
    [exc |-> exc, responses |-> responses, calls |-> calls, leak |-> leak, next |-> next]

Start == Acc(NoExc, <<>>, <<>>, 0, 1)

\* the failed EmailResponseDTO that the default send_bulk builds from an exception
FailedResponse(p, e) ==
    EmailResponseDTO(FALSE, None, ClassName(p),
                     IF e.type = "EmailSendError" THEN e.msg ELSE "Unexpected error: " \o e.msg,
                     NoCount, NoCount, None)

\* the mutant of the default loop: the first failing send ends the loop
RECURSIVE BaseLoopStopping(_, _, _, _, _)
BaseLoopStopping(p, cfg, ms, env, acc) ==
    IF ms = <<>> THEN acc
    ELSE LET s == ProviderSend(p, cfg, Head(ms), OutcomeAt(p, env, acc.next))
         IN IF s.out.kind = "raise"
              THEN Acc(NoExc, Append(acc.responses, FailedResponse(p, s.out.exc)),
                       acc.calls \o s.calls, acc.leak + s.leak, acc.next + 1)
            ELSE BaseLoopStopping(p, cfg, Tail(ms), env,
                     Acc(NoExc, Append(acc.responses, s.out.res),
                         acc.calls \o s.calls, acc.leak + s.leak, acc.next + 1))

\* BaseEmailProvider.send_bulk, the loop: every send's result or its failure
\* is appended, and the loop goes on
RECURSIVE BaseLoop(_, _, _, _, _)
BaseLoop(p, cfg, ms, env, acc) ==
    IF ms = <<>> THEN acc
    ELSE LET s == ProviderSend(p, cfg, Head(ms), OutcomeAt(p, env, acc.next))
             r == IF s.out.kind = "raise" THEN FailedResponse(p, s.out.exc) ELSE s.out.res
         IN BaseLoop(p, cfg, Tail(ms), env,
                     Acc(NoExc, Append(acc.responses, r), acc.calls \o s.calls,
                         acc.leak + s.leak, acc.next + 1))

\* BaseEmailProvider.send_bulk (inherited by SMTPProvider)
BaseEmailProvider_send_bulk(p, cfg, bulk, env) ==
    LET a == BaseLoop(p, cfg, bulk.messages, env, Start)
    IN [out |-> BulkReturned(FromResponses(a.responses)), calls |-> a.calls, leak |-> a.leak]

\* `for msg in messages: response = self.send(msg); responses.append(response)`
\* with no handler inside the loop: the first exception leaves the loop
RECURSIVE SendEach(_, _, _, _, _)
SendEach(p, cfg, ms, env, acc) ==
    IF ms = <<>> \/ acc.exc # NoExc THEN acc
    ELSE LET s == ProviderSend(p, cfg, Head(ms), OutcomeAt(p, env, acc.next))
         IN IF s.out.kind = "raise"
              THEN Acc(s.out.exc, acc.responses, acc.calls \o s.calls,
                       acc.leak + s.leak, acc.next + 1)
            ELSE SendEach(p, cfg, Tail(ms), env,
                     Acc(NoExc, Append(acc.responses, s.out.res), acc.calls \o s.calls,
                         acc.leak + s.leak, acc.next + 1))

\* the mutant of BulkOutcome: the responses collected before the exception
\* are returned
BulkOutcomeSwallowing(p, a, msg) ==
    [out |-> BulkReturned(FromResponses(a.responses)), calls |-> a.calls, leak |-> a.leak]

\* `except Exception as e: raise EmailSendError(..., provider=p)` around a
\* whole send_bulk body; otherwise from_responses(responses) is returned
BulkOutcome(p, a, msg) ==
    [out |-> IF a.exc # NoExc THEN BulkRaised(EmailSendError(msg, p))
             ELSE BulkReturned(FromResponses(a.responses)),
     calls |-> a.calls, leak |-> a.leak]

MailgunProvider_send_bulk(bulk, env) ==
    BulkOutcome("mailgun", SendEach("mailgun", DefaultConfig, bulk.messages, env, Start),
                "Failed to send bulk emails via Mailgun")

PostmarkProvider_send_bulk(bulk, env) ==
    BulkOutcome("postmark", SendEach("postmark", DefaultConfig, bulk.messages, env, Start),
                "Failed to send bulk emails via Postmark")

(* ------------------- template groups (SendGrid, SES) ------------------- *)
TemplateMessages(ms) == SelectSeq(ms, LAMBDA m : IsTemplateEmail(m))
RegularMessages(ms) == SelectSeq(ms, LAMBDA m : ~IsTemplateEmail(m))

\* the keys of grouped_by_template, in insertion order: the template ids in
\* the order of their first occurrence
TemplateKeys(ms) ==
    LET first == SelectSeq([i \in 1..Len(ms) |-> i],
                           LAMBDA i : \A j \in 1..(i - 1) :
                                        ms[j].template_id # ms[i].template_id)
    IN [k \in 1..Len(first) |-> ms[first[k]].template_id]

\* the mutant of GroupOf: every group holds all the template messages
GroupOfAll(ms, tid) == ms

\* grouped_by_template[tid]
GroupOf(ms, tid) == SelectSeq(ms, LAMBDA m : m.template_id = tid)

\* a unit of a native bulk call: the template and the messages folded into it
Unit(tid, ms) == [template_id |-> tid, messages |-> ms]

\* SendGrid: one unit per template group
RECURSIVE SendGridUnits(_, _)
SendGridUnits(keys, tms) ==
    IF keys = <<>> THEN <<>>
    ELSE <<Unit(Head(keys), GroupOf(tms, Head(keys)))>> \o SendGridUnits(Tail(keys), tms)

\* the mutant of Chunks: slices of size + 1
RECURSIVE ChunksTooLong(_, _, _)
ChunksTooLong(tid, ms, size) ==
    IF ms = <<>> THEN <<>>
    ELSE IF Len(ms) <= size + 1 THEN <<Unit(tid, ms)>>
    ELSE <<Unit(tid, SubSeq(ms, 1, size + 1))>>
         \o ChunksTooLong(tid, SubSeq(ms, size + 2, Len(ms)), size)

\* `for i in range(0, len(messages), 50): batch = messages[i:i + 50]`
RECURSIVE Chunks(_, _, _)
Chunks(tid, ms, size) ==
    IF ms = <<>> THEN <<>>
    ELSE IF Len(ms) <= size THEN <<Unit(tid, ms)>>
    ELSE <<Unit(tid, SubSeq(ms, 1, size))>> \o Chunks(tid, SubSeq(ms, size + 1, Len(ms)), size)

\* SES: the chunks of every template group, group after group
RECURSIVE SESUnits(_, _)
SESUnits(keys, tms) ==
    IF keys = <<>> THEN <<>>
    ELSE Chunks(Head(keys), GroupOf(tms, Head(keys)), SES_BULK_LIMIT)
         \o SESUnits(Tail(keys), tms)

\* the native bulk call of the adapter for one unit
BulkTemplateCall(p, u, o) ==
    IF p = "sendgrid" THEN SendGridProvider_send_bulk_template(u.template_id, u.messages, o)
    ELSE SESProvider_send_bulk_templated(u.template_id, u.messages, o)

\* the loop over the units: `response = self._send_bulk_...; responses.append(response)`
RECURSIVE SendUnits(_, _, _, _)
SendUnits(p, units, env, acc) ==
    IF units = <<>> \/ acc.exc # NoExc THEN acc
    ELSE LET s == BulkTemplateCall(p, Head(units), OutcomeAt(p, env, acc.next))
         IN IF s.out.kind = "raise"
              THEN Acc(s.out.exc, acc.responses, acc.calls \o s.calls, acc.leak, acc.next + 1)
            ELSE SendUnits(p, Tail(units), env,
                     Acc(NoExc, Append(acc.responses, s.out.res), acc.calls \o s.calls,
                         acc.leak, acc.next + 1))

SendGridProvider_send_bulk(bulk, env) ==
    LET tms == TemplateMessages(bulk.messages)
        units == SendGridUnits(TemplateKeys(tms), tms)
        a == SendUnits("sendgrid", units, env, Start)
    IN BulkOutcome("sendgrid",
                   SendEach("sendgrid", DefaultConfig, RegularMessages(bulk.messages), env, a),
                   "Failed to send bulk emails via SendGrid")

\* the mutant of SESProvider.send_bulk: the regular messages go first
SESProvider_send_bulk_regular_first(bulk, env) ==
    LET tms == TemplateMessages(bulk.messages)
        units == SESUnits(TemplateKeys(tms), tms)
        a == SendEach("ses", DefaultConfig, RegularMessages(bulk.messages), env, Start)
    IN BulkOutcome("ses", SendUnits("ses", units, env, a),
                   "Failed to send bulk emails via SES")

SESProvider_send_bulk(bulk, env) ==
    LET tms == TemplateMessages(bulk.messages)
        units == SESUnits(TemplateKeys(tms), tms)
        a == SendUnits("ses", units, env, Start)
    IN BulkOutcome("ses",
                   SendEach("ses", DefaultConfig, RegularMessages(bulk.messages), env, a),
                   "Failed to send bulk emails via SES")

(* ---------------------------- Brevo bulk ------------------------------ *)
\* one EmailResponseDTO per returned message id
\* the mutant of BrevoResponses: one response for the whole call
BrevoResponsesAggregate(ids, status) ==
    <<EmailResponseDTO(TRUE, IF ids = <<>> THEN None ELSE ids[1], "brevo", None,
                       status, NoCount, None)>>

BrevoResponses(ids, status) ==
    [k \in 1..Len(ids) |-> EmailResponseDTO(TRUE, ids[k], "brevo", None, status, NoCount, None)]

\* BrevoProvider.send_bulk: one messageVersions call; only a
\* RequestException is handled, and `for message_id in result.get('messageId')`
\* iterates None when the body has no messageId. `bulk.messages[0].subject`
\* raises IndexError, before any call, on a BulkEmailDTO without messages
BrevoProvider_send_bulk(bulk, env) ==
    LET o == OutcomeAt("brevo", env, 1)
        sender == IF Truthy(bulk.default_from) THEN bulk.default_from ELSE ConfigFromEmail
        call == Call("brevo", "smtp/email", None, sender, EntriesOf(bulk.messages))
        failed == "Failed to send email via Brevo"
        e == BrevoProvider_send_request(o)
        out ==
          IF e # NoExc THEN BulkRaised(ExceptRequestException(e, failed, "brevo"))
          ELSE IF o.json = "notjson"
            THEN BulkRaised(ExceptRequestException(Exc("JSONDecodeError", None, "json"),
                                                   failed, "brevo"))
          ELSE IF o.json = "empty"
            THEN BulkRaised(Exc("TypeError", None, "'NoneType' object is not iterable"))
          ELSE BulkReturned(FromResponses(BrevoResponses(o.ids, o.status)))
    IN IF bulk.messages = <<>>
         THEN [out |-> BulkRaised(Exc("IndexError", None, "list index out of range")),
               calls |-> <<>>, leak |-> 0]
       ELSE [out |-> out, calls |-> <<call>>, leak |-> 0]

\* provider.send_bulk(bulk) of the adapter registered under the name p
ProviderSendBulk(p, cfg, bulk, env) ==
    CASE p = "smtp" -> BaseEmailProvider_send_bulk(p, cfg, bulk, env)
      [] p = "sendgrid" -> SendGridProvider_send_bulk(bulk, env)
      [] p = "mailgun" -> MailgunProvider_send_bulk(bulk, env)
      [] p = "ses" -> SESProvider_send_bulk(bulk, env)
      [] p = "postmark" -> PostmarkProvider_send_bulk(bulk, env)
      [] p = "brevo" -> BrevoProvider_send_bulk(bulk, env)
      [] p = "custom" -> BaseEmailProvider_send_bulk(p, cfg, bulk, env)

(* ---------------------------- inputs ---------------------------------- *)
\* the fields a caller may pass to MailBridge.send (not all of them valid)
FieldMessages ==
    {[to |-> 1, subject |-> su, body |-> bo, from_email |-> None,
      cc |-> NoList, bcc |-> NoList,
      template_id |-> tid, template_data |-> da, attachments |-> at,
      tags |-> None] :
        su \in {None, "", "Hi"}, bo \in {None, "", "<p>x</p>"}, tid \in {None, "", "t1"},
        da \in {None, "d1"}, at \in BOOLEAN}

\* messages with cc and bcc lists, for the adapters that compute an
\* envelope recipient list from them (SMTP, and SES for a raw message)
CopiedMessages ==
    {[m EXCEPT !.cc = c, !.bcc = b] :
        m \in {f \in FieldMessages : f.subject = "Hi" /\ f.body = "<p>x</p>"},
        c \in {NoList, <<>>, <<"c1", "c2">>}, b \in {NoList, <<"b1">>}}
FieldMessagesOf(p) ==
    IF p \in {"smtp", "ses"} THEN FieldMessages \cup CopiedMessages ELSE FieldMessages

\* the messages of a batch, by kind: a content message or a message of a template
Kinds == {"regular"} \cup TemplateIds
KindMessage(i, k) ==
    IF k = "regular" THEN Message(i, "Hi", "<p>x</p>", None, None)
    ELSE Message(i, None, None, k, "d" \o ToString(i))

Batches ==
    UNION {{[i \in 1..n |-> KindMessage(i, ks[i])] : ks \in [1..n -> Kinds]} : n \in 0..MaxBatch}

\* a batch of n messages of template t1, but for its second message
LargeBatch(n, k) == [i \in 1..n |-> KindMessage(i, IF i = 2 THEN k ELSE "t1")]

\* batches around and beyond the length of one SES chunk
LargeBatches == {LargeBatch(n, k) : n \in (SES_BULK_LIMIT - 1)..MaxLarge, k \in Kinds}

\* the lists a caller hands to send_bulk of a client bound to provider p
BatchesOf(p) == IF p = "ses" THEN Batches \cup LargeBatches ELSE Batches

(* ---------------------------- BulkEmailDTO ---------------------------- *)
\* Tag lists are Python list objects: a message's tags and the tags of a
\* BulkEmailDTO are references into a heap of lists, so that two fields may
\* name the same list. L0, L1, L2 are the lists the caller made; CopyRef(i) is
\* the list `self.tags.copy()` makes for the i-th message.
TagRefs == {"L0", "L1", "L2"}
CopyRef(i) == "C" \o ToString(i)
CopyRefs == {CopyRef(i) : i \in 1..MaxCtor}
Heap0 ==
    [r \in TagRefs \cup CopyRefs |->
        CASE r = "L1" -> <<"a">>
          [] r = "L2" -> <<"b", "c">>
          [] OTHER -> <<>>]

\* the mutant of the default_from loop: every message gets the address
FillFromOverwriting(ms, df) ==
    [i \in 1..Len(ms) |-> IF Truthy(df) THEN [ms[i] EXCEPT !.from_email = df] ELSE ms[i]]

\* `if self.default_from: for message in self.messages:
\*      if not message.from_email: message.from_email = self.default_from`
FillFrom(ms, df) ==
    [i \in 1..Len(ms) |->
        IF Truthy(df) /\ ~Truthy(ms[i].from_email)
          THEN [ms[i] EXCEPT !.from_email = df] ELSE ms[i]]

\* `for message in self.messages: if message.tags: message.tags.extend(self.tags)
\*  else: message.tags = self.tags.copy()`, from the i-th message on
RECURSIVE MergeTags(_, _, _, _)
MergeTags(ms, heap, tref, i) ==
    IF i > Len(ms) THEN [messages |-> ms, heap |-> heap]
    ELSE IF ms[i].tags # None /\ heap[ms[i].tags] # <<>>
      THEN MergeTags(ms, [heap EXCEPT ![ms[i].tags] = heap[ms[i].tags] \o heap[tref]],
                     tref, i + 1)
    ELSE MergeTags([ms EXCEPT ![i].tags = CopyRef(i)],
                   [heap EXCEPT ![CopyRef(i)] = heap[tref]], tref, i + 1)

\* BulkEmailDTO(messages, default_from, tags).__post_init__: the DTO, the
\* messages as it leaves them, and the exception it raises
BulkEmailDTO(ms, df, tref, heap) ==
    IF ms = <<>>
      THEN [exc |-> Exc("ValueError", None, "At least one message must be provided"),
            messages |-> ms, default_from |-> df, tags |-> tref, heap |-> heap]
    ELSE LET filled == FillFrom(ms, df)
             merged == IF tref # None /\ heap[tref] # <<>>
                         THEN MergeTags(filled, heap, tref, 1)
                       ELSE [messages |-> filled, heap |-> heap]
         IN [exc |-> NoExc, messages |-> merged.messages, default_from |-> df,
             tags |-> tref, heap |-> merged.heap]

NoDto == [exc |-> NoExc, messages |-> <<>>, default_from |-> None, tags |-> None,
          heap |-> Heap0]

\* the messages handed to a BulkEmailDTO constructed directly
CtorMessage(i, f, t) ==
    [Message(i, "Hi", "<p>x</p>", None, None) EXCEPT !.from_email = f, !.tags = t]
CtorBatches ==
    UNION {{[i \in 1..n |-> CtorMessage(i, fs[i], ts[i])] :
              fs \in [1..n -> {None, "", "f1"}], ts \in [1..n -> {None} \cup TagRefs]} :
           n \in 0..MaxCtor}
DefaultFroms == {None, "", "d1"}
\* the messages and the default_from of a first BulkEmailDTO whose messages
\* a second one is constructed over, and the default_from of the second
RepeatBatches ==
    {ms \in CtorBatches : ms # <<>> /\ \A i \in 1..Len(ms) : ms[i].from_email # ""}
FirstFroms == {None, "d1"}
LaterFroms == {None, "d1", "d2"}
\* the default_from and tags of the two constructions: every pair of
\* default_from with the same tags, and every pair of tags with two defaults
RepeatArgs ==
    {[first_from |-> f1, later_from |-> f2, first_tags |-> "L1", later_tags |-> "L1"] :
        f1 \in FirstFroms, f2 \in LaterFroms}
    \cup {[first_from |-> "d1", later_from |-> "d2", first_tags |-> t1, later_tags |-> t2] :
             t1 \in {None} \cup TagRefs, t2 \in {None} \cup TagRefs}

\* the first argument of MailBridge.send_bulk, a list of messages or a
\* BulkEmailDTO the caller made, with the default_from and tags arguments
Given(kind, df, tref) == [kind |-> kind, default_from |-> df, tags |-> tref]
NoGiven == Given("none", None, None)

\* batches whose messages carry tag lists, for the facade's send_bulk
TaggedBatches ==
    {ms \in CtorBatches : ms # <<>> /\ \A i \in 1..Len(ms) : ms[i].from_email = None}

\* batches whose messages name their own senders, for the facade's send_bulk
SenderMessage(i, k, f) == [KindMessage(i, k) EXCEPT !.from_email = f]
SenderBatches ==
    UNION {{[i \in 1..n |-> SenderMessage(i, ks[i], fs[i])] :
              ks \in [1..n -> {"regular", "t1"}], fs \in [1..n -> {None, "f1", "f2"}]} :
           n \in 1..MaxSenders}


\* the outcomes a single send's transport call may have
HttpOutcomes ==
    {HttpResponse(st, js, x) : st \in {200, 201, 202, 204, 400, 500},
                               js \in {"obj", "empty", "notjson"}, x \in {None, "x1", "x2"}}
    \cup {HttpError("ConnectionError")}

OutcomesOf(p) ==
    CASE p = "smtp" -> SmtpFails
      [] p = "ses" -> SesOutcomes
      [] p = "custom" -> CustomOutcomes
      [] OTHER -> HttpOutcomes

\* the outcomes scripted for the transport calls of a send_bulk
BulkOutcomesOf(p) ==
    CASE p = "smtp" -> {"none", "login", "send_message"}
      [] p = "ses" -> {"ok", "ClientError", "malformed"}
      [] p = "custom" -> CustomOutcomes
      [] p = "brevo" -> {HttpResponse(200, "obj", "x1"), HttpResponse(400, "obj", None),
                         HttpResponse(200, "empty", "x1"), HttpError("ConnectionError"),
                         BrevoBulkResponse(201, <<>>),
                         BrevoBulkResponse(201, <<"m3", "m1", "m2">>)}
      [] OTHER -> {HttpResponse(200, "obj", "x1"), HttpResponse(400, "obj", None),
                   HttpResponse(200, "empty", "x1"), HttpError("ConnectionError")}

\* scripts of SES responses that report destinations as rejected
StatusScripts == [1..MaxEnv -> SesStatusOutcomes]

\* Brevo's send_bulk makes one call; the others make up to one per message
Scripts(p) ==
    [1..(IF p = "brevo" THEN 1 ELSE MaxEnv) -> BulkOutcomesOf(p)]

\* the arguments of MailBridge.send_bulk, the list and default_from, with the
\* outcomes of the transport calls: every script for the batches without
\* senders (for SES also the scripts of rejected destinations), an accepting
\* transport for the batches with senders
BulkArgs(p) ==
    {[messages |-> ms, default_from |-> None, tags |-> None, env |-> env] :
        ms \in BatchesOf(p), env \in Scripts(p)}
    \cup {[messages |-> ms, default_from |-> None, tags |-> None, env |-> env] :
             ms \in (IF p = "ses" THEN Batches ELSE {}), env \in StatusScripts}
    \cup {[messages |-> ms, default_from |-> df, tags |-> None, env |-> <<Accepted(p)>>] :
             ms \in SenderBatches, df \in {None, "d1"}}
    \cup {[messages |-> ms, default_from |-> None, tags |-> t, env |-> <<Accepted(p)>>] :
             ms \in TaggedBatches, t \in TagRefs}

\* the BulkEmailDTOs a caller hands to send_bulk: constructed from a batch
\* with senders, and the same after the caller emptied its messages
GivenDtos ==
    LET made == {BulkEmailDTO(ms, df, None, Heap0) : ms \in SenderBatches, df \in {None, "d1"}}
    IN made \cup {[d EXCEPT !.messages = <<>>] : d \in made}

\* the arguments of MailBridge.send_bulk when it is given a BulkEmailDTO:
\* the DTO, and the default_from and tags passed with it
DtoArgs(p) ==
    {[dto |-> d, default_from |-> g.default_from, tags |-> g.tags, env |-> <<Accepted(p)>>] :
        d \in GivenDtos, g \in {Given("dto", None, None), Given("dto", "d2", "L1")}}

\* the lists of responses handed to from_responses directly
SomeResponses ==
    {EmailResponseDTO(TRUE, "m1", "mailgun", None, NoCount, NoCount, None),
     EmailResponseDTO(TRUE, None, "smtp", None, NoCount, NoCount, None),
     EmailResponseDTO(FALSE, None, "SMTPProvider", "Failed to send email via SMTP",
                      NoCount, NoCount, None)}
ResponseLists == UNION {[1..n -> SomeResponses] : n \in 0..MaxBatch}

ConfigsOf(p) == IF p = "smtp" THEN SmtpConfigs ELSE {DefaultConfig}

(* ---------------------------- the registry ---------------------------- *)
\* MailBridge.PROVIDERS: a dict, here the sequence of its items in insertion order
Item(name, cls) == [name |-> name, cls |-> cls]
PROVIDERS ==
    <<Item("smtp", "SMTPProvider"), Item("sendgrid", "SendGridProvider"),
      Item("mailgun", "MailgunProvider"), Item("ses", "SESProvider"),
      Item("postmark", "PostmarkProvider"), Item("brevo", "BrevoProvider")>>

\* list(d.keys()), `name in d`, d[name]
KeysOf(d) == [i \in 1..Len(d) |-> d[i].name]
HasKey(d, name) == \E i \in 1..Len(d) : d[i].name = name
Lookup(d, name) == d[CHOOSE i \in 1..Len(d) : d[i].name = name].cls

\* d[name] = cls: an existing key keeps its place
SetItem(d, name, cls) ==
    IF HasKey(d, name)
      THEN [i \in 1..Len(d) |-> IF d[i].name = name THEN Item(name, cls) ELSE d[i]]
    ELSE Append(d, Item(name, cls))

\* the provider names a caller may write, and str.lower() on them
ProviderNames ==
    {"smtp", "SMTP", "Smtp", "sendgrid", "SendGrid", "mailgun", "MAILGUN", "ses", "SES",
     "postmark", "Postmark", "brevo", "Brevo", "custom", "Custom", "nope", ""}
Lower(name) ==
    CASE name \in {"SMTP", "Smtp"} -> "smtp"
      [] name = "SendGrid" -> "sendgrid"
      [] name = "MAILGUN" -> "mailgun"
      [] name = "SES" -> "ses"
      [] name = "Postmark" -> "postmark"
      [] name = "Brevo" -> "brevo"
      [] name = "Custom" -> "custom"
      [] OTHER -> name

\* the classes handed to register_provider; "dict" is not a BaseEmailProvider
Classes == {ClassName(p) : p \in Registered}

\* the mutant of the issubclass test: every class passes
IsProviderClassAny(cls) == TRUE

\* issubclass(provider_class, BaseEmailProvider)
IsProviderClass(cls) == cls \in Classes

\* the adapter a class implements, and the adapters a client can be bound to
KeyOf(cls) == CHOOSE p \in Registered : ClassName(p) = cls
Adapters(d) == {KeyOf(d[i].cls) : i \in 1..Len(d)}

(* ---------------------------- construction ---------------------------- *)
\* the keyword arguments of a constructor: the set of the keys given
ConfigKeys ==
    {"host", "port", "username", "password", "api_key", "endpoint", "server_token"}

\* the keys _validate_config requires of each adapter
Required(cls) ==
    CASE cls = "SMTPProvider" -> {"host", "port", "username", "password"}
      [] cls = "SendGridProvider" -> {"api_key"}
      [] cls = "MailgunProvider" -> {"api_key", "endpoint"}
      [] cls = "PostmarkProvider" -> {"server_token"}
      [] cls = "BrevoProvider" -> {"api_key"}
      [] OTHER -> {}

\* the state of boto3 when a SESProvider is constructed
BotoStates == {"ok", "missing", "client_error"}

\* the mutant of _validate_config: Mailgun's endpoint is not required
ValidateConfigLax(cls, keys, boto) ==
    IF cls = "SESProvider"
      THEN (IF boto = "ok" THEN NoExc ELSE Exc("ConfigurationError", None, boto))
    ELSE IF (Required(cls) \ {"endpoint"}) \subseteq keys THEN NoExc
    ELSE Exc("ConfigurationError", None, "Missing required configuration")

\* BaseEmailProvider.__init__: self._validate_config(), the exception it raises
ValidateConfig(cls, keys, boto) ==
    IF cls = "SESProvider"
      THEN (IF boto = "ok" THEN NoExc ELSE Exc("ConfigurationError", None, boto))
    ELSE IF Required(cls) \subseteq keys THEN NoExc
    ELSE Exc("ConfigurationError", None, "Missing required configuration")

\* what a constructor, a query or a registration gives back: the class of the
\* adapter bound, the two capability flags, the names an error message lists
Ret(kind, exc, cls, templates, bulk, names) ==
    [kind |-> kind, exc |-> exc, cls |-> cls, templates |-> templates, bulk |-> bulk,
     names |-> names]
NoRet == Ret("none", NoExc, None, FALSE, FALSE, <<>>)

\* the mutant of MailBridge.__init__: the name is looked up as written
MailBridgeInitCaseSensitive(name, keys, boto, d) ==
    IF ~HasKey(d, name)
      THEN Ret("raise", Exc("ProviderNotFoundError", None, "not found"), None,
               FALSE, FALSE, KeysOf(d))
    ELSE LET e == ValidateConfig(Lookup(d, name), keys, boto)
         IN IF e # NoExc THEN Ret("raise", e, None, FALSE, FALSE, <<>>)
            ELSE Ret("return", NoExc, Lookup(d, name), FALSE, FALSE, <<>>)

\* MailBridge.__init__(provider, **config)
MailBridgeInit(name, keys, boto, d) ==
    IF ~HasKey(d, Lower(name))
      THEN Ret("raise", Exc("ProviderNotFoundError", None, "not found"), None,
               FALSE, FALSE, KeysOf(d))
    ELSE LET e == ValidateConfig(Lookup(d, Lower(name)), keys, boto)
         IN IF e # NoExc THEN Ret("raise", e, None, FALSE, FALSE, <<>>)
            ELSE Ret("return", NoExc, Lookup(d, Lower(name)), FALSE, FALSE, <<>>)

(* ---------------------------- capabilities ---------------------------- *)
\* the base classes of each adapter
Bases(cls) ==
    IF cls \in {"SMTPProvider", "CustomProvider"} THEN {"BaseEmailProvider"}
    ELSE {"TemplateCapableProvider", "BulkCapableProvider", "BaseEmailProvider"}

\* supports_templates(), supports_bulk_sending(): the method the class inherits
SupportsTemplates(cls) == "TemplateCapableProvider" \in Bases(cls)
SupportsBulkSending(cls) == "BulkCapableProvider" \in Bases(cls)

(* ---------------------------- scoped use ------------------------------ *)
\* the adapter object a block works on, as the operations of the block have
\* left it: what it keeps between calls is the configuration it was
\* constructed with (self.config); no adapter keeps a connection
Adapter(cfg) == [config |-> cfg]

\* the mutant of close: closing puts the adapter back on the default
\* connection modes
BaseEmailProvider_close_resetting(self) ==
    [self |-> Adapter(DefaultConfig), exc |-> NoExc]

\* BaseEmailProvider.close: `pass`, and no adapter overrides it: the call
\* raises nothing and leaves the adapter as it is
BaseEmailProvider_close(self) ==
    [self |-> self, exc |-> NoExc]

\* MailBridge.close: self.provider.close()
MailBridge_close(self) == BaseEmailProvider_close(self)

\* what one operation of a block gave back, and the transport calls it issued
Step(name, kind, res, bulk, exc, sent) ==
    [name |-> name, kind |-> kind, res |-> res, bulk |-> bulk, exc |-> exc, sent |-> sent]

\* the state of a block: the results of the operations done, the transport
\* calls, the invocations of the adapter's close, the exception that left
\* it, the connections left open, and the adapter
Block(results, cs, closes, exc, leak, self) ==
    [results |-> results, calls |-> cs, closes |-> closes, exc |-> exc, leak |-> leak,
     self |-> self]

\* the block after a close of the adapter that ended as r, called by name
\* in the body
Closed(b, r, name) ==
    Block(IF name = "close"
            THEN Append(b.results,
                        Step("close", IF r.exc = NoExc THEN "return" ELSE "raise", NoResult,
                             NoBulk, r.exc, <<>>))
          ELSE b.results,
          b.calls, b.closes + 1, IF r.exc = NoExc THEN b.exc ELSE r.exc, b.leak, r.self)

\* __exit__ of the facade (self.provider.close()) and of an adapter
\* (self.close()); it returns None, so an exception leaving the block goes on
Exit(owner, b) ==
    IF owner = "MailBridge" THEN Closed(b, MailBridge_close(b.self), "__exit__")
    ELSE Closed(b, BaseEmailProvider_close(b.self), "__exit__")

\* close() called in the block: on the facade, on the adapter
CloseStep(owner, b) ==
    IF owner = "MailBridge" THEN Closed(b, MailBridge_close(b.self), "close")
    ELSE Closed(b, BaseEmailProvider_close(b.self), "close")

\* what send, having ended as r, gives the block
SendStep(r) ==
    [step |-> Step("send", r.out.kind, r.out.res, NoBulk, r.out.exc, r.calls),
     calls |-> r.calls, leak |-> r.leak]

\* what send_bulk, having ended as r, gives the block
BulkStep(r) ==
    [step |-> Step("send_bulk", r.out.kind, NoResult, r.out.bulk, r.out.exc, r.calls),
     calls |-> r.calls, leak |-> r.leak]

\* send of the message m, or send_bulk of the list [m], on the adapter as
\* the block has left it, with the transport outcome o
BodyStep(p, self, m, name, o) ==
    IF name = "send" THEN SendStep(ProviderSend(p, self.config, m, o))
    ELSE BulkStep(ProviderSendBulk(p, self.config,
                                   BulkEmailDTO(<<m>>, None, None, Heap0), <<o>>))

\* the block after the operation that ended as s: an exception it raised is
\* the exception that leaves the block
Then(b, s) ==
    Block(Append(b.results, s.step), b.calls \o s.calls, b.closes,
          IF s.step.kind = "raise" THEN s.step.exc ELSE NoExc, b.leak + s.leak, b.self)

\* the body of `with MailBridge(...) as mailer:` or `with Provider(...) as
\* provider:`, from the k-th operation on: close(), send of the message m or
\* send_bulk of the list [m]; the first exception leaves the block
RECURSIVE RunBody(_, _, _, _, _, _, _)
RunBody(owner, p, m, body, env, k, b) ==
    IF k > Len(body) \/ b.exc # NoExc THEN b
    ELSE RunBody(owner, p, m, body, env, k + 1,
                 IF body[k] = "close" THEN CloseStep(owner, b)
                 ELSE Then(b, BodyStep(p, b.self, m, body[k], env[k])))

\* the bodies of a block, and the outcomes the transport gives to its sends
BodySteps == {"close", "send", "send_bulk"}
Bodies == UNION {[1..n -> BodySteps] : n \in 0..MaxBody}
Rejected(p) ==
    CASE p = "smtp" -> "login"
      [] p = "ses" -> "ClientError"
      [] p = "custom" -> "EmailSendError"
      [] OTHER -> HttpResponse(400, "obj", None)
BlockOutcomes(p) == {Accepted(p), Rejected(p)}

(* ---------------------------- state ----------------------------------- *)
VARIABLES
    pc,        \* "idle": no call in progress; "done": a call has just ended
    op,        \* the call: "send" or "send_bulk", and the provider of the client
    config,    \* the connection modes of the adapter (SMTP)
    messages,  \* the message(s) given to the call
    script,    \* the outcomes the transport gave to the calls, in order
    sendOut,   \* what send returned or raised
    bulkOut,   \* what send_bulk returned or raised
    calls,     \* the transport calls the call issued, in order
    open,      \* SMTP connections the call opened and did not close
    dto,       \* the BulkEmailDTO the call constructed, with the heap of tag lists
    registry,  \* MailBridge.PROVIDERS
    args,      \* the arguments of a constructor or a registration
    ret,       \* what a constructor, a query or a registration gave back
    scope,     \* the scoped-use block the call ran: its body, results and closes
    run,       \* a send_bulk in progress: the work left, the units in flight
    prev,      \* the BulkEmailDTO constructed before over the same Message objects
    given      \* what send_bulk got as its messages, with its default_from and tags

vars == <<pc, op, config, messages, script, sendOut, bulkOut, calls, open, dto,
          registry, args, ret, scope, run, prev, given>>

Args(name, keys, boto, cls) == [name |-> name, keys |-> keys, boto |-> boto, cls |-> cls]
NoArgs == Args(None, {}, "ok", None)
NoSend == [kind |-> "none", res |-> NoResult, exc |-> NoExc]
NoBulkOut == [kind |-> "none", bulk |-> NoBulk, exc |-> NoExc]
Op(name, p) == [name |-> name, provider |-> p]
Scope(owner, body, b) ==
    [owner |-> owner, body |-> body, results |-> b.results, closes |-> b.closes,
     exc |-> b.exc]
NoScope == Scope(None, <<>>, Block(<<>>, <<>>, 0, NoExc, 0, Adapter(DefaultConfig)))
Run(work, inflight, issued, collected, acc) ==
    [work |-> work, inflight |-> inflight, issued |-> issued, collected |-> collected,
     acc |-> acc]
NoRun == Run(<<>>, <<>>, 0, 0, Start)

Init ==
    /\ pc = "idle"
    /\ op = Op("none", None)
    /\ config = DefaultConfig
    /\ messages = <<>>
    /\ script = <<>>
    /\ sendOut = NoSend
    /\ bulkOut = NoBulkOut
    /\ calls = <<>>
    /\ open = 0
    /\ dto = NoDto
    /\ registry = PROVIDERS
    /\ args = NoArgs
    /\ ret = NoRet
    /\ scope = NoScope
    /\ run = NoRun
    /\ prev = NoDto
    /\ given = NoGiven

\* MailBridge.send: the message is constructed (and validated) from the
\* fields, then handed to the adapter's send
MailBridge_send ==
    /\ pc = "idle"
    /\ \E p \in Adapters(registry) :
       \E m \in FieldMessagesOf(p), cfg \in ConfigsOf(p), o \in OutcomesOf(p) :
         LET s == ProviderSend(p, cfg, m, o)
         IN /\ op' = Op("send", p)
            /\ config' = cfg
            /\ messages' = <<m>>
            /\ script' = <<o>>
            /\ IF ValidMessage(m)
                 THEN sendOut' = s.out /\ calls' = s.calls /\ open' = s.leak
                 ELSE /\ sendOut' = Raised(Exc("ValueError", None, "must be provided"))
                      /\ calls' = <<>>
                      /\ open' = 0
    /\ bulkOut' = NoBulkOut
    /\ dto' = NoDto
    /\ pc' = "done"
    /\ UNCHANGED <<registry, args, ret, scope, run, prev, given>>

\* what the adapter's send_bulk, having ended as b, leaves
BulkEffect(b) ==
    /\ bulkOut' = b.out
    /\ calls' = b.calls
    /\ open' = b.leak

\* the mutant of send_bulk: the list goes to the adapter unchecked
SendBulkCallUnchecked(p, cfg, ms, df, tref, env) ==
    LET d == [BulkEmailDTO(ms, df, tref, Heap0) EXCEPT !.exc = NoExc]
    IN /\ op' = Op("send_bulk", p)
       /\ given' = Given("list", df, tref)
       /\ config' = cfg
       /\ messages' = ms
       /\ script' = env
       /\ dto' = d
       /\ BulkEffect(ProviderSendBulk(p, cfg, d, env))
       /\ sendOut' = NoSend
       /\ pc' = "done"
       /\ UNCHANGED <<registry, args, ret, scope, run, prev>>

\* the body of MailBridge.send_bulk for a list of messages: the BulkEmailDTO
\* is constructed from the list, default_from and tags, and handed to the
\* adapter's send_bulk
SendBulkCall(p, cfg, ms, df, tref, env) ==
    LET d == BulkEmailDTO(ms, df, tref, Heap0)
    IN /\ op' = Op("send_bulk", p)
       /\ given' = Given("list", df, tref)
       /\ config' = cfg
       /\ messages' = ms
       /\ script' = env
       /\ dto' = d
       /\ IF d.exc = NoExc
            THEN BulkEffect(ProviderSendBulk(p, cfg, d, env))
            ELSE /\ bulkOut' = BulkRaised(d.exc)
                 /\ calls' = <<>>
                 /\ open' = 0
       /\ sendOut' = NoSend
       /\ pc' = "done"
       /\ UNCHANGED <<registry, args, ret, scope, run, prev>>

\* `if isinstance(messages, BulkEmailDTO): return self.provider.send_bulk(messages)`:
\* the DTO the caller made goes to the adapter as it is; nothing is
\* constructed, and default_from and tags are not used
SendBulkDto(p, cfg, d, df, tref, env) ==
    /\ op' = Op("send_bulk", p)
    /\ given' = Given("dto", df, tref)
    /\ config' = cfg
    /\ messages' = d.messages
    /\ script' = env
    /\ dto' = d
    /\ BulkEffect(ProviderSendBulk(p, cfg, d, env))
    /\ sendOut' = NoSend
    /\ pc' = "done"
    /\ UNCHANGED <<registry, args, ret, scope, run, prev>>

\* MailBridge.send_bulk(messages, default_from, tags)
MailBridge_send_bulk ==
    /\ pc = "idle"
    /\ \E p \in Adapters(registry) :
         \/ \E a \in BulkArgs(p) :
              SendBulkCall(p, DefaultConfig, a.messages, a.default_from, a.tags, a.env)
         \/ \E a \in DtoArgs(p) :
              SendBulkDto(p, DefaultConfig, a.dto, a.default_from, a.tags, a.env)

\* BulkEmailDTO(messages, default_from, tags) constructed by the caller
BulkEmailDTO_init ==
    /\ pc = "idle"
    /\ \E ms \in CtorBatches, df \in DefaultFroms, t \in {None} \cup TagRefs :
         /\ messages' = ms
         /\ dto' = BulkEmailDTO(ms, df, t, Heap0)
    /\ op' = Op("BulkEmailDTO", None)
    /\ pc' = "done"
    /\ UNCHANGED <<config, script, sendOut, bulkOut, calls, open, registry, args, ret, scope, run, prev, given>>

\* BulkEmailDTO(...) constructed a second time over the Message objects of a
\* first BulkEmailDTO: the second __post_init__ finds the messages, and the
\* lists their tags name, as the first one left them
BulkEmailDTO_again ==
    /\ pc = "idle"
    /\ \E ms \in RepeatBatches, a \in RepeatArgs :
         LET first == BulkEmailDTO(ms, a.first_from, a.first_tags, Heap0)
         IN /\ first.exc = NoExc
            /\ messages' = ms
            /\ prev' = first
            /\ dto' = BulkEmailDTO(first.messages, a.later_from, a.later_tags, first.heap)
    /\ op' = Op("BulkEmailDTO_again", None)
    /\ pc' = "done"
    /\ UNCHANGED <<config, script, sendOut, bulkOut, calls, open, registry, args, ret, scope, run, given>>

\* BulkEmailResponseDTO.from_responses called on a list of responses
from_responses ==
    /\ pc = "idle"
    /\ \E rs \in ResponseLists :
         /\ script' = rs
         /\ bulkOut' = BulkReturned(FromResponses(rs))
    /\ op' = Op("from_responses", None)
    /\ pc' = "done"
    /\ UNCHANGED <<config, messages, sendOut, calls, open, dto, registry, args, ret, scope, run, prev, given>>

\* the inputs of a construction: SES alone depends on boto3
BotoOf(name) == IF Lower(name) = "ses" THEN BotoStates ELSE {"ok"}

\* MailBridge(provider, **config)
MailBridge_init ==
    /\ pc = "idle"
    /\ \E name \in ProviderNames, keys \in SUBSET ConfigKeys :
       \E boto \in BotoOf(name) :
         /\ args' = Args(name, keys, boto, None)
         /\ ret' = MailBridgeInit(name, keys, boto, registry)
         /\ op' = Op("init", None)
    /\ pc' = "done"
    /\ UNCHANGED <<config, messages, script, sendOut, bulkOut, calls, open, dto, registry, scope, run, prev, given>>

\* MailBridge.register_provider(name, provider_class)
register_provider ==
    /\ pc = "idle"
    /\ \E name \in {"custom", "Custom", "SMTP"}, cls \in {"CustomProvider", "dict"} :
         /\ args' = Args(name, {}, "ok", cls)
         /\ IF IsProviderClass(cls)
              THEN /\ registry' = SetItem(registry, Lower(name), cls)
                   /\ ret' = Ret("return", NoExc, None, FALSE, FALSE, <<>>)
              ELSE /\ registry' = registry
                   /\ ret' = Ret("raise", Exc("TypeError", None, "must inherit from EmailProvider"),
                                 None, FALSE, FALSE, <<>>)
    /\ op' = Op("register_provider", None)
    /\ pc' = "done"
    /\ UNCHANGED <<config, messages, script, sendOut, bulkOut, calls, open, dto, scope, run, prev, given>>

\* MailBridge.supports_templates() and supports_bulk_sending() of a client
\* bound to the adapter p
MailBridge_supports ==
    /\ pc = "idle"
    /\ \E p \in Adapters(registry) :
         /\ op' = Op("supports", p)
         /\ ret' = Ret("return", NoExc, ClassName(p), SupportsTemplates(ClassName(p)),
                       SupportsBulkSending(ClassName(p)), <<>>)
    /\ pc' = "done"
    /\ UNCHANGED <<config, messages, script, sendOut, bulkOut, calls, open, dto, registry, args, scope, run, prev, given>>

\* the block b is left, by its end or by its exception: __exit__ runs, and
\* the calls, the connections left open and the block are what it leaves
Leave(owner, body, b) ==
    /\ calls' = b.calls
    /\ open' = b.leak
    /\ scope' = Scope(owner, body, Exit(owner, b))

\* `with MailBridge(provider) as mailer: body` and `with Provider() as
\* provider: body`: the body runs, then __exit__ whichever way it was left
scoped_block ==
    /\ pc = "idle"
    /\ \E owner \in {"MailBridge", "adapter"}, p \in Adapters(registry), body \in Bodies :
       \E env \in [1..Len(body) -> BlockOutcomes(p)], cfg \in ConfigsOf(p) :
         /\ op' = Op("with", p)
         /\ config' = cfg
         /\ messages' = <<KindMessage(1, "regular")>>
         /\ script' = env
         /\ Leave(owner, body,
                  RunBody(owner, p, KindMessage(1, "regular"), body, env, 1,
                          Block(<<>>, <<>>, 0, NoExc, 0, Adapter(cfg))))
    /\ pc' = "done"
    /\ UNCHANGED <<sendOut, bulkOut, dto, registry, args, ret, run, prev, given>>

\* MailBridge.available_providers()
available_providers ==
    /\ pc = "idle"
    /\ op' = Op("available_providers", None)
    /\ ret' = Ret("return", NoExc, None, FALSE, FALSE, KeysOf(registry))
    /\ pc' = "done"
    /\ UNCHANGED <<config, messages, script, sendOut, bulkOut, calls, open, dto, registry, args, scope, run, prev, given>>

\* the caller has taken the result; the request and the result are discarded
Return ==
    /\ pc = "done"
    /\ pc' = "idle"
    /\ op' = Op("none", None)
    /\ config' = DefaultConfig
    /\ messages' = <<>>
    /\ script' = <<>>
    /\ sendOut' = NoSend
    /\ bulkOut' = NoBulkOut
    /\ calls' = <<>>
    /\ open' = 0
    /\ dto' = NoDto
    /\ args' = NoArgs
    /\ ret' = NoRet
    /\ scope' = NoScope
    /\ run' = NoRun
    /\ prev' = NoDto
    /\ given' = NoGiven
    /\ UNCHANGED registry

Next ==
    \/ MailBridge_send
    \/ MailBridge_send_bulk
    \/ from_responses
    \/ BulkEmailDTO_init
    \/ BulkEmailDTO_again
    \/ MailBridge_init
    \/ register_provider
    \/ MailBridge_supports
    \/ available_providers
    \/ scoped_block
    \/ Return

Spec == Init /\ [][Next]_vars

(* ------------------- send_bulk, one transport call at a time ----------- *)
\* The same send_bulk methods, statement by statement: a unit of work (a
\* message, a template group, a chunk, Brevo's one request) is dispatched,
\* and the statement that dispatched it goes on when the call has returned
\* or raised.
WorkUnit(kind, tid, ms) == [kind |-> kind, template_id |-> tid, messages |-> ms]

\* one send per message, in list order
SendWork(ms) == [i \in 1..Len(ms) |-> WorkUnit("send", ms[i].template_id, <<ms[i]>>)]

\* the native calls of the template units, in their order
BulkWork(units) ==
    [i \in 1..Len(units) |-> WorkUnit("bulk", units[i].template_id, units[i].messages)]

\* the dispatches send_bulk of the adapter p makes for the list ms, in the
\* order of its loops
Work(p, ms) ==
    LET tms == TemplateMessages(ms)
    IN CASE p = "sendgrid" ->
              BulkWork(SendGridUnits(TemplateKeys(tms), tms)) \o SendWork(RegularMessages(ms))
         [] p = "ses" ->
              BulkWork(SESUnits(TemplateKeys(tms), tms)) \o SendWork(RegularMessages(ms))
         [] p = "brevo" -> <<WorkUnit("versions", None, ms)>>
         [] OTHER -> SendWork(ms)

\* the call a unit of work is, with the outcome o of its transport
Dispatch(p, cfg, w, o) ==
    IF w.kind = "send" THEN ProviderSend(p, cfg, w.messages[1], o)
    ELSE BulkTemplateCall(p, Unit(w.template_id, w.messages), o)

\* the adapters whose send_bulk is BaseEmailProvider's
InheritsSendBulk(p) == p \in {"smtp", "custom"}

\* the text of the EmailSendError an overriding send_bulk raises
BulkFailedText(p) ==
    CASE p = "sendgrid" -> "Failed to send bulk emails via SendGrid"
      [] p = "ses" -> "Failed to send bulk emails via SES"
      [] p = "mailgun" -> "Failed to send bulk emails via Mailgun"
      [] p = "postmark" -> "Failed to send bulk emails via Postmark"
      [] OTHER -> "Failed to send email via Brevo"

\* the mutant of Blocked: the loop goes on while a call is outstanding
BlockedNever(r) == FALSE

\* requests.post, the boto3 client and smtplib block: the statement after a
\* dispatch is not reached while the call is outstanding
Blocked(r) == r.inflight # <<>>

\* the scripts of a stepwise send_bulk
SeqScripts(p) == [1..(IF p = "brevo" THEN 1 ELSE MaxEnv) -> BlockOutcomes(p)]

\* what a stepwise send_bulk is given: a list, a list with tags, or a
\* BulkEmailDTO the caller made; the messages, and the DTO the adapter gets
SeqArgs(p) ==
    {[given |-> Given("list", None, None), messages |-> ms,
      dto |-> BulkEmailDTO(ms, None, None, Heap0)] : ms \in BatchesOf(p)}
    \cup {[given |-> Given("list", None, "L1"), messages |-> ms,
           dto |-> BulkEmailDTO(ms, None, "L1", Heap0)] : ms \in TaggedBatches}
    \cup {[given |-> Given("dto", "d2", "L1"), messages |-> d.messages, dto |-> d] :
             d \in GivenDtos}

\* MailBridge.send_bulk is called: the BulkEmailDTO is built from a list, or
\* is the one given, and the adapter's send_bulk is entered
BulkBegin ==
    /\ pc = "idle"
    /\ \E p \in Providers :
       \E a \in SeqArgs(p), env \in SeqScripts(p) :
         /\ op' = Op("send_bulk", p)
         /\ given' = a.given
         /\ messages' = a.messages
         /\ script' = env
         /\ dto' = a.dto
         /\ IF a.dto.exc # NoExc
              THEN /\ run' = NoRun
                   /\ bulkOut' = BulkRaised(a.dto.exc)
                   /\ pc' = "done"
            ELSE IF p = "brevo" /\ a.dto.messages = <<>>
              THEN /\ run' = NoRun
                   /\ bulkOut' = BrevoProvider_send_bulk(a.dto, env).out
                   /\ pc' = "done"
            ELSE /\ run' = Run(Work(p, a.dto.messages), <<>>, 0, 0, Start)
                 /\ bulkOut' = NoBulkOut
                 /\ pc' = "running"
    /\ UNCHANGED <<config, sendOut, calls, open, registry, args, ret, scope, prev>>

\* the loop dispatches its next unit of work
BulkIssue ==
    /\ pc = "running"
    /\ run.work # <<>>
    /\ ~Blocked(run)
    /\ run' = [run EXCEPT !.work = Tail(@), !.inflight = Append(@, Head(run.work)),
                          !.issued = @ + 1]
    /\ UNCHANGED <<pc, op, config, messages, script, sendOut, bulkOut, calls, open, dto,
                   registry, args, ret, scope, prev, given>>

\* the outstanding call returns or raises, and the loop collects its result:
\* the response appended, the failure recorded by the inherited loop, or the
\* exception leaving an overriding send_bulk as an EmailSendError
BulkCollect ==
    /\ pc = "running"
    /\ run.inflight # <<>>
    /\ LET p == op.provider
           w == Head(run.inflight)
           a == run.acc
           rest == [run EXCEPT !.inflight = Tail(@), !.collected = @ + 1]
       IN IF w.kind = "versions"
            THEN LET b == BrevoProvider_send_bulk(dto, script)
                 IN /\ bulkOut' = b.out
                    /\ calls' = b.calls
                    /\ open' = b.leak
                    /\ run' = rest
                    /\ pc' = "done"
          ELSE LET s == Dispatch(p, config, w, OutcomeAt(p, script, a.next))
                   cs == a.calls \o s.calls
                   leak == a.leak + s.leak
               IN /\ calls' = cs
                  /\ open' = leak
                  /\ IF s.out.kind = "return"
                       THEN /\ run' = [rest EXCEPT !.acc = Acc(NoExc, Append(a.responses, s.out.res),
                                                              cs, leak, a.next + 1)]
                            /\ UNCHANGED <<pc, bulkOut>>
                     ELSE IF InheritsSendBulk(p)
                       THEN /\ run' = [rest EXCEPT !.acc =
                                         Acc(NoExc, Append(a.responses, FailedResponse(p, s.out.exc)),
                                             cs, leak, a.next + 1)]
                            /\ UNCHANGED <<pc, bulkOut>>
                     ELSE LET failed == Acc(s.out.exc, a.responses, cs, leak, a.next + 1)
                          IN /\ run' = [rest EXCEPT !.acc = failed]
                             /\ bulkOut' = BulkOutcome(p, failed, BulkFailedText(p)).out
                             /\ pc' = "done"
    /\ UNCHANGED <<op, config, messages, script, sendOut, dto, registry, args, ret, scope, prev, given>>

\* the loops are over: `return BulkEmailResponseDTO.from_responses(responses)`
BulkFinish ==
    /\ pc = "running"
    /\ run.work = <<>>
    /\ run.inflight = <<>>
    /\ bulkOut' = BulkReturned(FromResponses(run.acc.responses))
    /\ pc' = "done"
    /\ UNCHANGED <<op, config, messages, script, sendOut, calls, open, dto, registry, args,
                   ret, scope, run, prev, given>>

NextSeq ==
    \/ BulkBegin
    \/ BulkIssue
    \/ BulkCollect
    \/ BulkFinish
    \/ Return

SpecSeq == Init /\ [][NextSeq]_vars

(* ====================== properties ===================================== *)
Done(name, p) == pc = "done" /\ op = Op(name, p)
BulkDone(p) == Done("send_bulk", p) /\ messages # <<>>

\* the transport calls of the last operation that use the API a
CallsOf(a) == SelectSeq(calls, LAMBDA c : c.api = a)

\* the indices of the responses that are successes
Successes(rs) == {i \in 1..Len(rs) : rs[i].success}

\* an SMTP primitive failure that the configuration makes happen and that
\* reaches the adapter: a QUIT that ends in SMTPServerDisconnected, after the
\* server accepted the message, ends the session and nothing is raised
SmtpFailure(cfg, fail) ==
    /\ fail \notin {"none", "quit_disconnected"}
    /\ fail \in {"starttls", "starttls_disconnected", "starttls_handshake"} =>
         (cfg.use_tls /\ ~cfg.use_ssl)

(* ---- C1 ---- *)
\* the send of an adapter with the inherited send_bulk raises
InheritingSendRaises(p, cfg, m, o) ==
    IF p = "smtp" THEN m.body = None \/ SmtpFailure(cfg, o) ELSE o # "return"

\* the messages the adapter's send got as far as handing to the transport
Dispatched(p) == IF p = "smtp" THEN CallsOf("send_message") ELSE calls

\* C1: the default send_bulk (SMTP, or any subclass that inherits it), on a
\* non-empty batch, calls send once per message in list order, never raises
\* whatever send raises, and returns total = number of messages, failed =
\* number of sends that raised, successful = the rest, responses[i] being
\* the outcome of messages[i].
C1_DefaultBulkIsolates ==
    \A p \in {"smtp", "custom"} :
      BulkDone(p) =>
        LET n == Len(messages)
            rs == bulkOut.bulk.responses
            failing == {i \in 1..n : InheritingSendRaises(p, config, messages[i],
                                                          OutcomeAt(p, script, i))}
            noBody == {i \in 1..n : p = "smtp" /\ messages[i].body = None}
            connects == SelectSeq(calls, LAMBDA c : c.api \in {"SMTP", "SMTP_SSL", "send"})
            sent == Dispatched(p)
        IN /\ bulkOut.kind = "return"
           /\ Len(connects) = n - Cardinality(noBody)
           /\ p = "custom" => \A i \in 1..n : calls[i].entries[1].to = messages[i].to
           /\ \A j \in 1..Len(sent) : sent[j].entries[1].to \in (1..n) \ noBody
           /\ \A j \in 1..Len(sent), k \in 1..Len(sent) :
                j < k => sent[j].entries[1].to < sent[k].entries[1].to
           /\ bulkOut.bulk.total = n
           /\ Len(rs) = n
           /\ bulkOut.bulk.failed = Cardinality(failing)
           /\ bulkOut.bulk.successful = n - Cardinality(failing)
           /\ \A i \in 1..n :
                /\ rs[i].success <=> i \notin failing
                /\ ~rs[i].success => rs[i].error # None /\ rs[i].error # ""

\* a three-message SMTP batch whose second dispatch raised: total 3, successful 2, failed 1
C1_Witness ==
    /\ BulkDone("smtp")
    /\ Len(messages) = 3
    /\ \A i \in 1..3 : messages[i].body # None
    /\ script[1] = "none" /\ script[2] = "send_message" /\ script[3] = "none"
    /\ bulkOut.kind = "return"
    /\ bulkOut.bulk.total = 3 /\ bulkOut.bulk.successful = 2 /\ bulkOut.bulk.failed = 1
    /\ ~bulkOut.bulk.responses[2].success
    /\ bulkOut.bulk.responses[3].success

(* ---- C2 ---- *)
\* the batch goes down the per-message path of an overriding adapter
PerMessagePath(p, ms) ==
    \/ p \in {"mailgun", "postmark"}
    \/ p \in {"sendgrid", "ses"} /\ \A i \in 1..Len(ms) : ~IsTemplateEmail(ms[i])

\* C2: in the per-message path of an overriding send_bulk (Mailgun, Postmark,
\* non-template SendGrid and SES), a failing send becomes a failed response
\* in the returned result, the remaining messages are still dispatched and
\* send_bulk does not raise.
C2_PerMessageIsolation ==
    \A p \in {"mailgun", "postmark", "sendgrid", "ses"} :
      (BulkDone(p) /\ PerMessagePath(p, messages)) =>
        /\ bulkOut.kind = "return"
        /\ Len(calls) = Len(messages)
        /\ Len(bulkOut.bulk.responses) = Len(messages)
        /\ \A i \in 1..Len(messages) :
             bulkOut.bulk.responses[i].success
               <=> ProviderSend(p, config, messages[i], OutcomeAt(p, script, i)).out.kind = "return"

(* ---- C3 ---- *)
\* the call is a native batched call of the adapter p
NativeCall(p, c) ==
    \/ p = "ses" /\ c.api = "send_bulk_templated_email"
    \/ p = "sendgrid" /\ c.template_id # None /\ c.provider = "sendgrid"
    \/ p = "brevo"

\* the transport call failed: the transport raised, or the status is not one
\* the adapter documents as success
CallFailed(p, o) ==
    CASE p = "ses" -> o \in {"ClientError", "BotoCoreError"}
      [] p = "sendgrid" -> o.kind = "raise" \/ o.status \notin {200, 202}
      [] p = "brevo" -> o.kind = "raise" \/ o.status \notin {200, 201}
      [] p \in {"mailgun", "postmark"} -> o.kind = "raise" \/ o.status # 200
      [] OTHER -> FALSE

C4_BulkCounts ==
    (pc = "done" /\ bulkOut.kind = "return") =>
      LET b == bulkOut.bulk
      IN /\ b.total = b.successful + b.failed
         /\ b.total = Len(b.responses)
         /\ b.successful = Cardinality(Successes(b.responses))
         /\ op.name = "from_responses" => b.responses = script

\* from_responses on a list with successes and a failure
C4_Witness ==
    /\ Done("from_responses", None)
    /\ Len(script) = 3
    /\ bulkOut.bulk.successful = 2
    /\ bulkOut.bulk.failed = 1

(* ---- C5 ---- *)
\* the concatenation of the entries of a sequence of calls
RECURSIVE AllEntries(_)
AllEntries(cs) == IF cs = <<>> THEN <<>> ELSE Head(cs).entries \o AllEntries(Tail(cs))

\* the messages of template t, in input order, as payload entries
GroupEntries(t) ==
    LET g == SelectSeq(messages, LAMBDA m : m.template_id = t)
    IN [i \in 1..Len(g) |-> [to |-> g[i].to, data |-> g[i].template_data]]

\* C5: every SES bulk call carries messages of one template and at most 50
\* destinations; when send_bulk returns, a group of n messages of one template
\* went out as ceil(n/50) calls in input order, each of exactly 50 but
\* possibly the last, with one response per call.
C5_SESChunks ==
    BulkDone("ses") =>
      LET bulkCalls == CallsOf("send_bulk_templated_email")
      IN /\ \A k \in 1..Len(bulkCalls) :
              /\ Len(bulkCalls[k].entries) \in 1..50
              /\ \A j \in 1..Len(bulkCalls[k].entries) :
                   messages[bulkCalls[k].entries[j].to].template_id = bulkCalls[k].template_id
         /\ bulkOut.kind = "return" =>
              /\ \A t \in TemplateIds :
                   LET cs == SelectSeq(bulkCalls, LAMBDA c : c.template_id = t)
                       n == Len(GroupEntries(t))
                   IN /\ Len(cs) = (n + 49) \div 50
                      /\ \A k \in 1..(Len(cs) - 1) : Len(cs[k].entries) = 50
                      /\ AllEntries(cs) = GroupEntries(t)
              /\ bulkOut.bulk.total = Len(bulkCalls) + Len(CallsOf("send_email"))
              /\ \A k \in 1..Len(bulkCalls) :
                   /\ bulkOut.bulk.responses[k].bulk_count = Len(bulkCalls[k].entries)
                   /\ bulkOut.bulk.responses[k].meta_template = bulkCalls[k].template_id

\* 75 messages of one template: two calls of 50 and 25 destinations, total 2
C5_Witness ==
    /\ BulkDone("ses")
    /\ Len(messages) = 75
    /\ \A i \in 1..75 : messages[i].template_id = "t1"
    /\ bulkOut.kind = "return"
    /\ Len(calls) = 2
    /\ Len(calls[1].entries) = 50 /\ Len(calls[2].entries) = 25
    /\ bulkOut.bulk.total = 2

(* ---- C6 ---- *)
\* every transport call of the last operation was accepted by the provider
AllAccepted(p) == \A k \in 1..Len(calls) : ~CallFailed(p, OutcomeAt(p, script, k))

\* the template ids that occur in the batch
TemplatesIn(ms) == {ms[i].template_id : i \in {j \in 1..Len(ms) : IsTemplateEmail(ms[j])}}

\* C6: for every batch the provider accepts, SendGrid send_bulk issues one
\* call per distinct template_id, whose personalizations are the messages of
\* that group with their own recipients and data, plus one call per
\* non-template message, and total = distinct template ids + non-template
\* messages.
C6_SendGridGrouping ==
    (BulkDone("sendgrid") /\ AllAccepted("sendgrid")) =>
      LET regular == SelectSeq(messages, LAMBDA m : ~IsTemplateEmail(m))
          groupCalls == SelectSeq(calls, LAMBDA c : c.template_id # None)
          sendCalls == SelectSeq(calls, LAMBDA c : c.template_id = None)
      IN /\ bulkOut.kind = "return"
         /\ Len(groupCalls) = Cardinality(TemplatesIn(messages))
         /\ \A t \in TemplatesIn(messages) :
              \E k \in 1..Len(groupCalls) :
                groupCalls[k].template_id = t /\ groupCalls[k].entries = GroupEntries(t)
         /\ Len(sendCalls) = Len(regular)
         /\ bulkOut.bulk.total = Cardinality(TemplatesIn(messages)) + Len(regular)

(* ---- C7 ---- *)
\* a transport call of the SMTP session failed: any smtplib primitive the
\* session issues, from the connection to QUIT (STARTTLS is issued on a
\* plaintext connection with use_tls)
SmtpCallFails(cfg, fail) ==
    /\ fail # "none"
    /\ fail \in {"starttls", "starttls_disconnected", "starttls_handshake"} =>
         (cfg.use_tls /\ ~cfg.use_ssl)

\* the single send of adapter p failed at the transport or was rejected
SendFailed(p, cfg, o) ==
    IF p = "smtp" THEN SmtpCallFails(cfg, o) ELSE CallFailed(p, o)

\* the provider accepted the request of the single send: the HTTP or SES
\* call did not fail; the SMTP session got as far as QUIT with the message
\* taken by the server
SendAccepted(p, cfg, o) ==
    IF p = "smtp"
      THEN \/ o \in {"none", "quit", "quit_disconnected", "quit_closed"}
           \/ ~SmtpCallFails(cfg, o)
    ELSE ~CallFailed(p, o)

\* C7: a single send whose transport call fails or whose provider rejects the
\* request raises EmailSendError; send returns only when the provider
\* accepted, and what it returns has success = true.
C7_SendPropagates ==
    \A p \in Providers :
      (Done("send", p) /\ ValidMessage(messages[1])) =>
        /\ SendFailed(p, config, script[1]) =>
             sendOut.kind = "raise" /\ sendOut.exc.type = "EmailSendError"
        /\ sendOut.kind = "return" =>
             sendOut.res.success /\ SendAccepted(p, config, script[1])

(* ---- C8 ---- *)
\* the exception the last operation raised (NoExc when it returned)
RaisedExc ==
    IF sendOut.kind = "raise" THEN sendOut.exc
    ELSE IF bulkOut.kind = "raise" THEN bulkOut.exc
    ELSE NoExc

\* the request passed validation: the failure, if any, is one of the send attempt
ValidRequest ==
    /\ messages # <<>>
    /\ \A i \in 1..Len(messages) : ValidMessage(messages[i])

\* C8: any failure of a send attempt (send or send_bulk) reaches the caller as
\* an EmailSendError and as no other exception type, and its provider field
\* names the adapter that made the attempt.
C8_OnlyEmailSendError ==
    (pc = "done" /\ op.name \in {"send", "send_bulk"} /\ op.provider \in Providers
       /\ ValidRequest /\ RaisedExc # NoExc) =>
      /\ RaisedExc.type = "EmailSendError"
      /\ RaisedExc.provider = op.provider

(* ---- C9 ---- *)
\* C9: after an SMTP send returns or raises, also when STARTTLS, login or the
\* dispatch failed, every connection the call opened has been closed.
C9_SmtpConnectionClosed ==
    (pc = "done" /\ op.provider = "smtp") => open = 0

(* ---- C10 ---- *)
\* C10: SendGrid send returns a successful result exactly when the response
\* status is 200 or 202, with message_id = the X-Message-Id header and
\* metadata.status_code = the status; any other status raises EmailSendError.
C10_SendGridSend ==
    (Done("send", "sendgrid") /\ ValidMessage(messages[1]) /\ script[1].kind = "response") =>
      IF script[1].status \in {200, 202}
        THEN /\ sendOut.kind = "return"
             /\ sendOut.res.success
             /\ sendOut.res.message_id = script[1].xid
             /\ sendOut.res.status_code = script[1].status
        ELSE sendOut.kind = "raise" /\ sendOut.exc.type = "EmailSendError"

(* ---- C11 ---- *)
\* C11: Brevo send_bulk on a non-empty batch issues exactly one API call,
\* carrying one message version per message in batch order; when it returns,
\* the BulkResult holds exactly one successful SendResult per message id of
\* the response, in the order of the response, and total is their number.
C11_BrevoBulkOneCall ==
    BulkDone("brevo") =>
      LET ids == script[1].ids
          rs == bulkOut.bulk.responses
      IN /\ Len(calls) = 1
         /\ Len(calls[1].entries) = Len(messages)
         /\ \A i \in 1..Len(messages) :
              /\ calls[1].entries[i].to = messages[i].to
              /\ IsTemplateEmail(messages[i]) =>
                   calls[1].entries[i].data = messages[i].template_data
         /\ bulkOut.kind = "return" =>
              /\ bulkOut.bulk.total = Len(ids)
              /\ bulkOut.bulk.successful = Len(ids)
              /\ bulkOut.bulk.failed = 0
              /\ Len(rs) = Len(ids)
              /\ \A k \in 1..Len(ids) :
                   rs[k].success /\ rs[k].message_id = ids[k] /\ rs[k].provider = "brevo"

\* a two-message batch answered with three ids: one call, three results in returned order
C11_Witness ==
    /\ BulkDone("brevo")
    /\ Len(messages) = 2
    /\ script[1].ids = <<"m3", "m1", "m2">>
    /\ Len(calls) = 1
    /\ bulkOut.kind = "return"
    /\ bulkOut.bulk.total = 3
    /\ bulkOut.bulk.responses[1].message_id = "m3"
    /\ bulkOut.bulk.responses[3].message_id = "m2"

(* ---- C12 ---- *)
\* a field that is absent or the empty string
Empty(x) == x \in {None, ""}

\* C12: constructing a Message from the fields given to send fails with a
\* ValueError exactly when template_id is empty and subject or body is empty.
C12_MessageValidation ==
    \A p \in Registered :
      Done("send", p) =>
        LET m == messages[1]
        IN (sendOut.kind = "raise" /\ sendOut.exc.type = "ValueError")
             <=> (Empty(m.template_id) /\ (Empty(m.subject) \/ Empty(m.body)))

\* a message with only template_id set was constructed and handed to the
\* transport
C12_Witness ==
    /\ \E p \in Registered : Done("send", p)
    /\ messages[1].template_id = "t1"
    /\ messages[1].subject = None /\ messages[1].body = None
    /\ sendOut.exc.type # "ValueError"
    /\ Len(calls) > 0

(* ---- C13 ---- *)
\* C13: a facade send whose fields violate the message invariants, and a
\* facade send_bulk given an empty list, raise ValueError, and in that call
\* the adapter is not invoked: no transport call is made and no connection
\* is opened.
C13_ValidationFirst ==
    \A p \in Registered :
      /\ (Done("send", p) /\ Empty(messages[1].template_id)
            /\ (Empty(messages[1].subject) \/ Empty(messages[1].body))) =>
           /\ sendOut.kind = "raise" /\ sendOut.exc.type = "ValueError"
           /\ calls = <<>> /\ open = 0
      /\ (Done("send_bulk", p) /\ given.kind = "list" /\ messages = <<>>) =>
           /\ bulkOut.kind = "raise" /\ bulkOut.exc.type = "ValueError"
           /\ calls = <<>> /\ open = 0

\* send_bulk of a Brevo client on an empty list raised ValueError with no call
C13_Witness ==
    /\ Done("send_bulk", "brevo")
    /\ given.kind = "list"
    /\ messages = <<>>
    /\ bulkOut.kind = "raise" /\ bulkOut.exc.type = "ValueError"
    /\ calls = <<>>

(* ---- C14 ---- *)
\* a BulkEmailDTO has been constructed, by the caller or by the facade from
\* the list it was given
Constructed ==
    /\ pc = "done"
    /\ op.name = "BulkEmailDTO" \/ (op.name = "send_bulk" /\ given.kind = "list")
    /\ dto.exc = NoExc

\* C14: after a BulkEmailDTO is constructed, a message whose from_email was
\* unset has the DTO's default_from when one was given, and every other
\* message has the from_email it had; with no default_from nothing changes.
C14_DefaultFromFill ==
    Constructed =>
      /\ Len(dto.messages) = Len(messages)
      /\ \A i \in 1..Len(messages) :
           dto.messages[i].from_email =
             IF ~Empty(dto.default_from) /\ Empty(messages[i].from_email)
               THEN dto.default_from ELSE messages[i].from_email

\* default_from d1 went to the first message, which had no sender, and the
\* second kept its own
C14_Witness ==
    /\ Constructed
    /\ op.name = "BulkEmailDTO"
    /\ dto.default_from = "d1"
    /\ Len(messages) = 2
    /\ messages[1].from_email = None /\ messages[2].from_email = "f1"
    /\ dto.messages[1].from_email = "d1" /\ dto.messages[2].from_email = "f1"

(* ---- C15 ---- *)
\* the tags of a message: the contents of the list its tags field names
TagsOf(m, heap) == IF m.tags = None THEN <<>> ELSE heap[m.tags]

\* C15: after a BulkEmailDTO is constructed with a non-empty tags list T,
\* every message's tags are its previous tags followed by T, and the DTO's
\* own list still holds T.
C15_TagsMerged ==
    (Constructed /\ dto.tags # None /\ Heap0[dto.tags] # <<>>) =>
      /\ \A i \in 1..Len(messages) :
           TagsOf(dto.messages[i], dto.heap) = TagsOf(messages[i], Heap0) \o Heap0[dto.tags]
      /\ dto.heap[dto.tags] = Heap0[dto.tags]

(* ---- C16 ---- *)
\* the message, as the adapter got it, that the entry e of a call carries
MessageOf(e) == IF op.name = "send" THEN messages[1] ELSE dto.messages[e.to]

\* C16: every transport call that carries messages names, as its sender, the
\* from_email of each message it carries, or the configured default for a
\* message that has none - in send and in every path of send_bulk.
C16_OwnSender ==
    (pc = "done" /\ op.name \in {"send", "send_bulk"}) =>
      \A k \in 1..Len(calls) :
        \A j \in 1..Len(calls[k].entries) :
          calls[k].source = SenderOf(MessageOf(calls[k].entries[j]))

(* ---- C17 ---- *)
\* C17: in the BulkResult of the per-message loop of the default send_bulk,
\* every failed entry has a non-empty error and names the provider by the
\* name its successful results and its EmailSendError carry ("smtp" for
\* SMTP), so that all entries of the result name one provider.
C17_FailedEntryProvider ==
    \A p \in {"smtp", "custom"} :
      (BulkDone(p) /\ bulkOut.kind = "return") =>
        \A i \in 1..Len(bulkOut.bulk.responses) :
          LET r == bulkOut.bulk.responses[i]
          IN /\ ~r.success => (r.error # None /\ r.error # "" /\ r.provider = p)
             /\ r.provider = bulkOut.bulk.responses[1].provider

(* ---- C18 ---- *)
\* C18: for every built-in adapter, supports_bulk_sending() is true exactly
\* for the adapters with a native bulk path (SendGrid, SES, Brevo) and false
\* for SMTP, Mailgun and Postmark; supports_templates() is false for SMTP only.
C18_CapabilityFlags ==
    \A p \in Providers :
      Done("supports", p) =>
        /\ ret.kind = "return"
        /\ ret.bulk <=> p \in {"sendgrid", "ses", "brevo"}
        /\ ret.templates <=> p # "smtp"

(* ---- C19 ---- *)
\* the settings the specification makes mandatory for each built-in adapter
Mandatory(n) ==
    CASE n = "smtp" -> {"host", "port", "username", "password"}
      [] n \in {"sendgrid", "brevo"} -> {"api_key"}
      [] n = "mailgun" -> {"api_key", "endpoint"}
      [] n = "postmark" -> {"server_token"}

\* a client of a built-in adapter (not re-registered) is being constructed
Constructing(n) ==
    /\ pc = "done" /\ op.name = "init"
    /\ Lower(args.name) = n
    /\ Lookup(registry, n) = ClassName(n)

\* C19: constructing an adapter without all of its mandatory settings raises
\* ConfigurationError with no transport call made, constructing it with all
\* of them succeeds, and no send or send_bulk raises ConfigurationError.
C19_ConfigurationAtConstruction ==
    /\ \A n \in {"smtp", "sendgrid", "brevo", "mailgun", "postmark"} :
         Constructing(n) =>
           /\ calls = <<>> /\ open = 0
           /\ IF Mandatory(n) \subseteq args.keys
                THEN ret.kind = "return" /\ ret.cls = ClassName(n)
                ELSE ret.kind = "raise" /\ ret.exc.type = "ConfigurationError"
    /\ (pc = "done" /\ op.name \in {"send", "send_bulk"}) =>
         /\ sendOut.exc.type # "ConfigurationError"
         /\ bulkOut.exc.type # "ConfigurationError"

\* a Mailgun client constructed with api_key but no endpoint was refused
C19_Witness ==
    /\ Constructing("mailgun")
    /\ args.keys = {"api_key"}
    /\ ret.kind = "raise" /\ ret.exc.type = "ConfigurationError"
    /\ calls = <<>>

(* ---- C20 ---- *)
\* the name as the registry spells it: lower case
Spelled(name) ==
    CASE name \in {"smtp", "SMTP", "Smtp"} -> "smtp"
      [] name \in {"sendgrid", "SendGrid"} -> "sendgrid"
      [] name \in {"mailgun", "MAILGUN"} -> "mailgun"
      [] name \in {"ses", "SES"} -> "ses"
      [] name \in {"postmark", "Postmark"} -> "postmark"
      [] name \in {"brevo", "Brevo"} -> "brevo"
      [] name \in {"custom", "Custom"} -> "custom"
      [] OTHER -> name

\* C20: constructing a client looks the name up in lower case: when no such
\* name is registered, ProviderNotFoundError is raised, its message lists
\* every registered name and no adapter is bound; when one is, the client is
\* never refused as unknown, and is bound, if its configuration is accepted,
\* to an instance of the class registered under that name.
C20_ProviderLookup ==
    (pc = "done" /\ op.name = "init") =>
      LET n == Spelled(args.name)
          registered == {registry[i].name : i \in 1..Len(registry)}
      IN IF n \notin registered
           THEN /\ ret.kind = "raise" /\ ret.exc.type = "ProviderNotFoundError"
                /\ {ret.names[i] : i \in 1..Len(ret.names)} = registered
                /\ Len(ret.names) = Len(registry)
                /\ ret.cls = None
         ELSE /\ ret.exc.type # "ProviderNotFoundError"
              /\ ret.kind = "return" =>
                   \E i \in 1..Len(registry) :
                     registry[i].name = n /\ registry[i].cls = ret.cls
              /\ ret.kind = "return" \/ ret.exc.type = "ConfigurationError"

\* with CustomProvider registered as the seventh name "custom", the name
\* "Custom" bound a CustomProvider
C20_Witness ==
    /\ pc = "done" /\ op.name = "init"
    /\ Len(registry) = 7
    /\ registry[7] = Item("custom", "CustomProvider")
    /\ args.name = "Custom"
    /\ ret.kind = "return" /\ ret.cls = "CustomProvider"

(* ---- C21 ---- *)
\* the classes that satisfy the capability contract: the adapters, built in
\* or written by the caller
Conforming(cls) ==
    cls \in {"SMTPProvider", "SendGridProvider", "MailgunProvider", "SESProvider",
             "PostmarkProvider", "BrevoProvider", "CustomProvider"}

\* the names of a registry
Names(d) == {d[i].name : i \in 1..Len(d)}

\* the step is a call of the operation called name
Calls(name) == pc = "idle" /\ pc' = "done" /\ op'.name = name

\* C21: register_provider with a class outside the capability contract
\* raises TypeError and leaves the registry as it was; with a conforming class
\* it binds the lower-cased name to that class and leaves every other name
\* with its class. No other operation changes the registry, so from then on
\* available_providers lists the name, and constructing a client with the
\* name in any letter case binds an instance of the class registered.
C21_Registration ==
    [][/\ Calls("register_provider") =>
            LET n == Spelled(args'.name)
            IN IF Conforming(args'.cls)
                 THEN /\ ret'.kind = "return"
                      /\ Names(registry') = Names(registry) \cup {n}
                      /\ Len(registry') = Cardinality(Names(registry'))
                      /\ \A i \in 1..Len(registry') :
                           registry'[i].cls =
                             IF registry'[i].name = n THEN args'.cls
                             ELSE Lookup(registry, registry'[i].name)
                 ELSE /\ ret'.kind = "raise" /\ ret'.exc.type = "TypeError"
                      /\ registry' = registry
       /\ ~Calls("register_provider") => registry' = registry
       /\ Calls("available_providers") =>
            /\ ret'.kind = "return"
            /\ {ret'.names[i] : i \in 1..Len(ret'.names)} = Names(registry)
            /\ Len(ret'.names) = Len(registry)
       /\ (Calls("init") /\ Spelled(args'.name) \in Names(registry)) =>
            LET cls == Lookup(registry, Spelled(args'.name))
            IN /\ ret'.kind = "return" => ret'.cls = cls
               /\ cls = "CustomProvider" => ret'.kind = "return"
      ]_vars

\* CustomProvider was registered under "SMTP": the name smtp, still the first
\* of six, is bound to it, and sendgrid keeps its class
C21_Witness ==
    /\ Done("register_provider", None)
    /\ args.name = "SMTP" /\ args.cls = "CustomProvider"
    /\ ret.kind = "return"
    /\ Len(registry) = 6
    /\ registry[1] = Item("smtp", "CustomProvider")
    /\ registry[2] = Item("sendgrid", "SendGridProvider")

(* ---- C22 ---- *)
\* the operations of the block that ran: all of them, or those up to the
\* first one that raised
Ran == Len(scope.results)

\* C22: in a scoped-use block of the facade or of an adapter, whatever the
\* interleaving of close, send and send_bulk, no close raises, every send and
\* send_bulk has the outcome, and issues the transport calls, that it has on
\* the adapter as it was constructed and never closed, an exception of the
\* body leaves the block unchanged, and when the block is left, by its end
\* or by an exception, the adapter's close has been invoked exactly once
\* more than the body invoked it.
C22_CloseSafe ==
    \A p \in Registered :
      Done("with", p) =>
        LET body == scope.body
            rs == scope.results
            closed == {k \in 1..Ran : body[k] = "close"}
        IN /\ Ran <= Len(body)
           /\ \A k \in 1..Ran :
                /\ rs[k].name = body[k]
                /\ body[k] = "close" => rs[k].kind = "return" /\ rs[k].sent = <<>>
                /\ body[k] = "send" =>
                     LET r == ProviderSend(p, config, messages[1], script[k])
                     IN /\ rs[k].kind = r.out.kind /\ rs[k].res = r.out.res
                        /\ rs[k].exc = r.out.exc /\ rs[k].sent = r.calls
                /\ body[k] = "send_bulk" =>
                     LET r == ProviderSendBulk(p, config,
                                               BulkEmailDTO(messages, None, None, Heap0),
                                               <<script[k]>>)
                     IN /\ rs[k].kind = r.out.kind /\ rs[k].bulk = r.out.bulk
                        /\ rs[k].exc = r.out.exc /\ rs[k].sent = r.calls
                /\ rs[k].kind = "raise" => k = Ran
           /\ (Ran < Len(body)) => rs[Ran].kind = "raise"
           /\ scope.exc = IF Ran > 0 /\ rs[Ran].kind = "raise" THEN rs[Ran].exc ELSE NoExc
           /\ scope.closes = Cardinality(closed) + 1

\* a facade block that closed twice and then sent a message Mailgun
\* rejected: the EmailSendError left the block and close ran a third time
C22_Witness ==
    /\ Done("with", "mailgun")
    /\ scope.owner = "MailBridge"
    /\ scope.body = <<"close", "close", "send">>
    /\ script[3] = Rejected("mailgun")
    /\ Len(scope.results) = 3
    /\ scope.exc.type = "EmailSendError"
    /\ scope.closes = 3

(* ---- C23 ---- *)
\* C23: in every adapter's send_bulk at most one transport call is
\* outstanding at any time, the next message, group or chunk is dispatched
\* only when the result or the failure of every earlier one has been
\* collected, and the calls and the result of the whole are those of the
\* calls made one after another in the order of the loops.
C23_Sequential ==
    \A p \in Providers :
      (op = Op("send_bulk", p) /\ dto.exc = NoExc) =>
        /\ Len(run.inflight) <= 1
        /\ run.issued = run.collected + Len(run.inflight)
        /\ run.collected = run.acc.next - 1 \/ p = "brevo"
        /\ Len(run.work) + run.issued <= Len(Work(p, dto.messages))
        /\ run.inflight # <<>> => run.inflight[1] = Work(p, dto.messages)[run.issued]
        /\ pc = "done" =>
             LET b == ProviderSendBulk(p, config, dto, script)
             IN /\ run.inflight = <<>>
                /\ bulkOut = b.out
                /\ calls = b.calls
                /\ open = b.leak

\* an SES send_bulk whose second unit of three is outstanding, the first
\* collected and the third not yet dispatched
C23_Witness ==
    /\ pc = "running"
    /\ op = Op("send_bulk", "ses")
    /\ Len(messages) = 3
    /\ run.issued = 2 /\ run.collected = 1
    /\ Len(run.inflight) = 1
    /\ Len(run.work) = 1
    /\ Len(run.acc.responses) = 1

(* ---- C24 ---- *)
\* the positions of the calls of the API a in the last operation
At(a) == {k \in 1..Len(calls) : calls[k].api = a}

\* C24: a successful SMTP send opens one connection, SSL-wrapped when
\* use_ssl and plaintext otherwise, upgrades it by STARTTLS exactly when it
\* is plaintext and use_tls is set, logs in once, and then issues exactly one
\* send_message, addressed to to + cc + bcc, in this order; in no SMTP send is
\* send_message issued without a login that succeeded before it, nor
\* STARTTLS on an SSL-wrapped connection.
C24_SmtpOrder ==
    Done("send", "smtp") =>
      LET m == messages[1]
          upgraded == ~config.use_ssl /\ config.use_tls
      IN /\ sendOut.kind = "return" =>
              /\ calls[1].api = (IF config.use_ssl THEN "SMTP_SSL" ELSE "SMTP")
              /\ At("SMTP") \cup At("SMTP_SSL") = {1}
              /\ At("starttls") = (IF upgraded THEN {2} ELSE {})
              /\ At("login") = {IF upgraded THEN 3 ELSE 2}
              /\ At("send_message") = {IF upgraded THEN 4 ELSE 3}
              /\ \A k \in At("send_message") :
                   calls[k].rcpt = <<m.to>> \o (IF m.cc = NoList THEN <<>> ELSE m.cc)
                                          \o (IF m.bcc = NoList THEN <<>> ELSE m.bcc)
         /\ \A k \in At("send_message") :
              /\ script[1] \notin {"connect", "greeting", "login", "login_disconnected"}
              /\ script[1] \in {"starttls", "starttls_disconnected", "starttls_handshake"} =>
                   ~upgraded
              /\ \E j \in At("login") : j < k
         /\ config.use_ssl => At("starttls") = {}

\* a message with two cc and one bcc went out over a STARTTLS connection:
\* SMTP, starttls, login, then send_message to the four addresses
C24_Witness ==
    /\ Done("send", "smtp")
    /\ sendOut.kind = "return"
    /\ config = [use_tls |-> TRUE, use_ssl |-> FALSE]
    /\ messages[1].cc = <<"c1", "c2">> /\ messages[1].bcc = <<"b1">>
    /\ Len(calls) >= 4
    /\ calls[1].api = "SMTP" /\ calls[2].api = "starttls" /\ calls[3].api = "login"
    /\ calls[4].api = "send_message"
    /\ calls[4].rcpt = <<1, "c1", "c2", "b1">>

(* ---- C25 ---- *)
\* the SES operation the shape of a message selects: the template test
\* first, then the attachments
Selected(m) ==
    IF ~Empty(m.template_id) THEN "send_templated_email"
    ELSE IF m.attachments THEN "send_raw_email"
    ELSE "send_email"

\* C25: every SES send invokes exactly one SES operation: the templated send
\* for a template message, with or without attachments, the raw send with
\* destinations to + cc + bcc for a message without template and with
\* attachments, the simple send otherwise; every message without template of
\* a send_bulk goes the same way.
C25_SesSelection ==
    /\ (Done("send", "ses") /\ sendOut.exc.type # "ValueError") =>
         /\ Len(calls) = 1
         /\ calls[1].api = Selected(messages[1])
         /\ calls[1].api = "send_raw_email" => calls[1].rcpt = Recipients(messages[1])
    /\ BulkDone("ses") =>
         \A k \in 1..Len(calls) :
           calls[k].api # "send_bulk_templated_email" =>
             /\ Len(calls[k].entries) = 1
             /\ Empty(dto.messages[calls[k].entries[1].to].template_id)
             /\ calls[k].api = Selected(dto.messages[calls[k].entries[1].to])

(* ---- C27 ---- *)
\* the message of the last send was constructed: validation accepted it
Accepted27 == pc = "done" /\ op.name = "send" /\ sendOut.exc.type # "ValueError"

\* C27: a constructed message is a template message for dispatch exactly
\* when its template_id is non-empty: one accepted on its subject and body,
\* with an empty template_id, is never sent down a template path, and one
\* that is_template_email() calls no template message has a non-empty
\* subject and body.
C27_Classification ==
    Accepted27 =>
      LET m == messages[1]
      IN /\ IsTemplateEmail(m) <=> ~Empty(m.template_id)
         /\ Empty(m.template_id) =>
              \A k \in 1..Len(calls) : calls[k].api # "send_templated_email"
         /\ ~IsTemplateEmail(m) => (~Empty(m.subject) /\ ~Empty(m.body))

(* ---- C26 ---- *)
\* the number of messages the results stand for: bulk_count for a templated
\* result, one for any other
RECURSIVE Covered(_)
Covered(rs) ==
    IF rs = <<>> THEN 0
    ELSE (IF Head(rs).bulk_count = NoCount THEN 1 ELSE Head(rs).bulk_count)
         + Covered(Tail(rs))

\* C26: when a SendGrid or SES send_bulk returns, every message of the
\* batch is in exactly one of the calls issued, the bulk_count of each
\* templated result is the number of messages of its call, and the
\* bulk_counts of the templated results plus the number of the other results
\* add up to the number of messages.
C26_EveryMessageOnce ==
    \A p \in {"sendgrid", "ses"} :
      (BulkDone(p) /\ bulkOut.kind = "return") =>
        LET es == AllEntries(calls)
            rs == bulkOut.bulk.responses
        IN /\ Len(es) = Len(messages)
           /\ {es[j].to : j \in 1..Len(es)} = 1..Len(messages)
           /\ Len(rs) = Len(calls)
           /\ \A k \in 1..Len(calls) :
                IF calls[k].template_id # None
                  THEN rs[k].bulk_count = Len(calls[k].entries)
                  ELSE rs[k].bulk_count = NoCount /\ Len(calls[k].entries) = 1
           /\ Covered(rs) = Len(messages)

\* an SES batch of two t1 messages around a regular one: two calls, the
\* first with bulk_count 2
C26_Witness ==
    /\ BulkDone("ses")
    /\ bulkOut.kind = "return"
    /\ Len(messages) = 3
    /\ messages[1].template_id = "t1" /\ messages[2].template_id = None
    /\ messages[3].template_id = "t1"
    /\ Len(calls) = 2
    /\ bulkOut.bulk.responses[1].bulk_count = 2
    /\ bulkOut.bulk.responses[2].bulk_count = NoCount

(* ---- C28 ---- *)
\* the place of a message in the order of dispatch: the first occurrence of
\* its template_id, or past the end of the batch when it has no template
Rank(ms, first, i) ==
    IF ms[i].template_id = None THEN Len(ms) + 1 ELSE first[ms[i].template_id]

\* C28: SendGrid and SES send_bulk issue their calls in this order: the
\* template groups by the first occurrence of their template_id, the chunks
\* of one SES group one after another in input order, then the messages
\* without template in input order; each call carries one group, and the
\* responses are listed in the order of the calls.
C28_DispatchOrder ==
    \A p \in {"sendgrid", "ses"} :
      BulkDone(p) =>
        LET ms == messages
            es == AllEntries(calls)
            first == [t \in TemplateIds |->
                        IF \E j \in 1..Len(ms) : ms[j].template_id = t
                          THEN CHOOSE j \in 1..Len(ms) :
                                 /\ ms[j].template_id = t
                                 /\ \A l \in 1..(j - 1) : ms[l].template_id # t
                          ELSE 0]
        IN /\ \A a \in 1..(Len(es) - 1) :
                LET i == es[a].to
                    j == es[a + 1].to
                IN \/ Rank(ms, first, i) < Rank(ms, first, j)
                   \/ Rank(ms, first, i) = Rank(ms, first, j) /\ i < j
           /\ \A k \in 1..Len(calls) :
                \A j \in 1..Len(calls[k].entries) :
                  ms[calls[k].entries[j].to].template_id = calls[k].template_id
           /\ bulkOut.kind = "return" =>
                /\ Len(es) = Len(ms)
                /\ Len(bulkOut.bulk.responses) = Len(calls)
                /\ \A k \in 1..Len(calls) :
                     bulkOut.bulk.responses[k].meta_template = calls[k].template_id

\* an SES batch of a regular message, a t2 and a t1 message: the calls carry
\* message 2, then 3, then 1, so responses[1] is not that of messages[1]
C28_Witness ==
    /\ BulkDone("ses")
    /\ bulkOut.kind = "return"
    /\ Len(messages) = 3
    /\ messages[1].template_id = None
    /\ messages[2].template_id = "t2" /\ messages[3].template_id = "t1"
    /\ Len(calls) = 3
    /\ calls[1].entries[1].to = 2 /\ calls[2].entries[1].to = 3
    /\ calls[3].entries[1].to = 1
    /\ bulkOut.bulk.responses[1].meta_template = "t2"

(* ---- C29 ---- *)
\* the destinations of a call with n of them that the response reports as
\* delivered
Delivered(o, n) ==
    CASE o = "partial" -> n - 1
      [] o \in {"rejected", "nostatus"} -> 0
      [] OTHER -> n

\* C29: the result of an SES bulk chunk whose call returned has success =
\* true whatever the statuses of its destinations: the rejected ones only
\* lower success_count, the chunk counts as successful in the BulkResult and
\* failed stays 0.
C29_ChunkSuccess ==
    (BulkDone("ses") /\ bulkOut.kind = "return") =>
      LET rs == bulkOut.bulk.responses
      IN /\ bulkOut.bulk.failed = 0
         /\ bulkOut.bulk.successful = Len(calls)
         /\ \A k \in 1..Len(calls) :
              calls[k].api = "send_bulk_templated_email" =>
                /\ rs[k].success
                /\ rs[k].bulk_count = Len(calls[k].entries)
                /\ rs[k].success_count = Delivered(OutcomeAt("ses", script, k),
                                                   Len(calls[k].entries))

\* a chunk of two destinations, both rejected by SES: success with
\* success_count 0, and failed = 0
C29_Witness ==
    /\ BulkDone("ses")
    /\ bulkOut.kind = "return"
    /\ script[1] = "rejected"
    /\ Len(calls) = 1
    /\ Len(calls[1].entries) = 2
    /\ bulkOut.bulk.responses[1].success
    /\ bulkOut.bulk.responses[1].success_count = 0
    /\ bulkOut.bulk.responses[1].bulk_count = 2
    /\ bulkOut.bulk.failed = 0

(* ---- C30 ---- *)
\* a second BulkEmailDTO has been constructed over the messages of a first
Repeated ==
    /\ pc = "done"
    /\ op.name = "BulkEmailDTO_again"
    /\ dto.exc = NoExc

\* C30: after a second BulkEmailDTO is constructed over the same Message
\* objects, a message that had a from_email after the first construction
\* (its own, or the first default_from) still has it, whatever the second
\* default_from; and when the second construction has a non-empty tags list
\* T, every message's tags are the tags it had after the first construction
\* followed by T, so that with the same list T both times a message ends with
\* its original tags followed by T twice.
C30_Accumulates ==
    Repeated =>
      \A i \in 1..Len(messages) :
        /\ Truthy(prev.messages[i].from_email) =>
             dto.messages[i].from_email = prev.messages[i].from_email
        /\ (dto.tags # None /\ prev.heap[dto.tags] # <<>>) =>
             TagsOf(dto.messages[i], dto.heap) =
               TagsOf(prev.messages[i], prev.heap) \o prev.heap[dto.tags]
        /\ (dto.tags # None /\ dto.tags = prev.tags /\ Heap0[dto.tags] # <<>>) =>
             TagsOf(dto.messages[i], dto.heap) =
               TagsOf(messages[i], Heap0) \o Heap0[dto.tags] \o Heap0[dto.tags]

====
